---- MODULE Spec2Model ----
(***************************************************************************)
(* Catalog transformation pipeline of liv-agent (backend/).                *)
(*                                                                         *)
(* Python strings are modelled as sequences of one-character strings, so   *)
(* that splitting, trimming, lower-casing and replacing are computed on    *)
(* the characters as the interpreter computes them.                        *)
(***************************************************************************)
EXTENDS Integers, Sequences, FiniteSets, TLC

VARIABLES
    products,            \* BeautyProductManager.products
    processed_products,  \* BeautyProductManager.processed_products
    hashseed,            \* the interpreter's string-hash seed of the running process
    request,             \* the call being served: operation and arguments
    response,            \* what the call returned
    previous,            \* what the preceding call of the same operation returned
    config,              \* BeautyProductManager.config
    effects              \* history: the writes to Products and the hand-overs so far

vars == <<products, processed_products, hashseed, request, response, previous,
          config, effects>>

None == [kind |-> "None"]

----------------------------------------------------------------------------
(* Bounds of the model *)

MaxProducts == 3   \* most products in a request to the aggregators
MaxRows == 2       \* most rows of a CSV file given to load_csv
MaxLen == 4        \* longest raw field string given to the list parsers

----------------------------------------------------------------------------
(* BeautyProductManager.load_config: the keys of the configuration that the *)
(* modelled operations read, with their default values                     *)

default_config ==
    [max_products_per_batch |-> 10,
     enable_image_generation |-> TRUE,
     enable_seo_generation |-> TRUE]

----------------------------------------------------------------------------
(* Python str primitives *)

\* the Persian comma U+060C, one character of the string
PersianComma == "U+060C"

Whitespace == {" "}

RECURSIVE lstrip(_)
lstrip(s) ==
    IF s # <<>> /\ Head(s) \in Whitespace THEN lstrip(Tail(s)) ELSE s

RECURSIVE rstrip(_)
rstrip(s) ==
    IF s # <<>> /\ s[Len(s)] \in Whitespace
    THEN rstrip(SubSeq(s, 1, Len(s) - 1))
    ELSE s

strip_none(s) == s

\* str.strip()
strip(s) == rstrip(lstrip(s))

\* `sep in s` for strings: sep occurs as a substring of s
str_contains(s, sep) ==
    \E i \in 1..(Len(s) - Len(sep) + 1) : SubSeq(s, i, i + Len(sep) - 1) = sep

\* index of the first occurrence of sep in s, 0 when there is none (str.find + 1)
str_find(s, sep) ==
    IF str_contains(s, sep)
    THEN CHOOSE i \in 1..(Len(s) - Len(sep) + 1) :
            /\ SubSeq(s, i, i + Len(sep) - 1) = sep
            /\ \A j \in 1..(i - 1) : SubSeq(s, j, j + Len(sep) - 1) # sep
    ELSE 0

\* str.split(sep): the pieces between the non-overlapping occurrences of sep,
\* scanned left to right; empty pieces are kept
RECURSIVE str_split(_, _)
str_split(s, sep) ==
    LET i == str_find(s, sep) IN
    IF i = 0 THEN <<s>>
    ELSE <<SubSeq(s, 1, i - 1)>> \o str_split(SubSeq(s, i + Len(sep), Len(s)), sep)

----------------------------------------------------------------------------
(* Field-list parsing: BeautyProductManager.parse_skin_types / parse_ingredients *)

skin_separators_reordered == << <<";">>, <<",">>, <<"|">>, <<PersianComma>> >>

\* separators = [',', ';', '|', U+060C]
skin_separators == << <<",">>, <<";">>, <<"|">>, <<PersianComma>> >>

ingredient_separators_padded_first ==
    << <<" ", "|", " ">>, <<",">>, <<";">>, <<"|">>, <<PersianComma>> >>

\* separators = [',', ';', '|', U+060C, ' | ']
ingredient_separators ==
    << <<",">>, <<";">>, <<"|">>, <<PersianComma>>, <<" ", "|", " ">> >>

\* [s.strip() for s in text.split(sep) if s.strip()]
RECURSIVE strip_pieces(_)
strip_pieces(pieces) ==
    IF pieces = <<>> THEN <<>>
    ELSE LET t == strip(Head(pieces)) IN
         (IF t # <<>> THEN <<t>> ELSE <<>>) \o strip_pieces(Tail(pieces))

\* the loop `for sep in separators: if sep in text: return [...]`, from the
\* k-th separator on, and the fall-through return after it
RECURSIVE split_on_first(_, _, _)
split_on_first(text, separators, k) ==
    IF k > Len(separators)
    THEN (IF strip(text) # <<>> THEN <<strip(text)>> ELSE <<>>)
    ELSE IF str_contains(text, separators[k])
         THEN strip_pieces(str_split(text, separators[k]))
         ELSE split_on_first(text, separators, k + 1)

parse_skin_types(skin_types_str) ==
    IF skin_types_str = <<>> THEN <<>>
    ELSE split_on_first(skin_types_str, skin_separators, 1)

parse_ingredients(ingredients_str) ==
    IF ingredients_str = <<>> THEN <<>>
    ELSE split_on_first(ingredients_str, ingredient_separators, 1)

----------------------------------------------------------------------------
(* Values of a pandas DataFrame cell and their Python conversions           *)

StrCell(s) == [kind |-> "str", s |-> s, n |-> 0, float |-> FALSE]
NumCell(n, isfloat) == [kind |-> "num", s |-> <<>>, n |-> n, float |-> isfloat]
NaNCell == [kind |-> "nan", s |-> <<>>, n |-> 0, float |-> TRUE]

\* a Python float: a number or nan
Float(n) == [nan |-> FALSE, val |-> n]
NaN == [nan |-> TRUE, val |-> 0]

\* outcome of evaluating an expression: a value, or an exception raised
Value(v) == [raised |-> FALSE, val |-> v]
Raised == [raised |-> TRUE, val |-> <<>>]

Digits == <<"0", "1", "2", "3", "4", "5", "6", "7", "8", "9">>

IsDigit(c) == \E d \in 1..10 : Digits[d] = c

DigitValue(c) == (CHOOSE d \in 1..10 : Digits[d] = c) - 1

IsNumericText(s) == s # <<>> /\ \A i \in 1..Len(s) : IsDigit(s[i])

RECURSIVE NumericValue(_)
NumericValue(s) ==
    IF s = <<>> THEN 0
    ELSE 10 * NumericValue(SubSeq(s, 1, Len(s) - 1)) + DigitValue(s[Len(s)])

RECURSIVE IntToStr(_)
IntToStr(n) ==
    IF n < 10 THEN <<Digits[n + 1]>>
    ELSE IntToStr(n \div 10) \o <<Digits[(n % 10) + 1]>>

\* the texts pandas.read_csv reads as a missing value (its default na_values):
\* the empty field and "N/A" among them
PandasNA == {<<>>, <<"N", "/", "A">>}

\* a column is numeric when each of its cells that is not missing is a number
ColumnIsNumeric(file, col) ==
    \A i \in 1..Len(file.rows) :
        file.rows[i][col] \in PandasNA \/ IsNumericText(file.rows[i][col])

ColumnHasNA(file, col) ==
    \E i \in 1..Len(file.rows) : file.rows[i][col] \in PandasNA

\* the value df.iterrows() gives for the cell of row i in column col
pandas_cell(file, i, col) ==
    LET text == file.rows[i][col] IN
    IF text \in PandasNA THEN NaNCell
    ELSE IF ColumnIsNumeric(file, col)
         THEN NumCell(NumericValue(text), ColumnHasNA(file, col))
         ELSE StrCell(text)

\* row.get(col, default)
row_get(file, i, col, default) ==
    IF col \in file.columns THEN pandas_cell(file, i, col) ELSE default

\* str(x)
py_str(cell) ==
    CASE cell.kind = "str" -> cell.s
      [] cell.kind = "nan" -> <<"n", "a", "n">>
      [] cell.kind = "num" ->
            IntToStr(cell.n) \o (IF cell.float THEN <<".", "0">> ELSE <<>>)

\* float(x): the number, nan, or ValueError for a text that is no number
py_float(cell) ==
    CASE cell.kind = "num" -> Value(Float(cell.n))
      [] cell.kind = "nan" -> Value(NaN)
      [] cell.kind = "str" ->
            IF IsNumericText(strip(cell.s))
            THEN Value(Float(NumericValue(strip(cell.s))))
            ELSE Raised

\* `not x`
py_not(cell) ==
    CASE cell.kind = "str" -> cell.s = <<>>
      [] cell.kind = "nan" -> FALSE
      [] cell.kind = "num" -> cell.n = 0

\* parse_skin_types called with the cell of a row: `not x` is false for nan,
\* and `sep in x` raises TypeError when x is a float (nan or a number)
parse_skin_types_cell(cell) ==
    IF py_not(cell) THEN Value(<<>>)
    ELSE IF cell.kind # "str" THEN Raised
    ELSE Value(parse_skin_types(cell.s))

\* parse_ingredients called with the cell of a row
parse_ingredients_cell(cell) ==
    IF py_not(cell) THEN Value(<<>>)
    ELSE IF cell.kind # "str" THEN Raised
    ELSE Value(parse_ingredients(cell.s))

----------------------------------------------------------------------------
(* BeautyProductManager.load_csv *)

COL_ID == "ID"
COL_NAME == "Name"
COL_META_BRAND == "Meta: _livora_brand_name"
COL_BRAND == "Brand"
COL_CATEGORIES == "Categories"
COL_PRICE == "Regular price"
COL_DESCRIPTION == "Description"
COL_SKU == "SKU"
COL_SKIN == "Meta: _livora_skin_type"
COL_INGREDIENTS == "Meta: ingredients"
COL_USAGE == "Meta: usage_instructions"

\* str(row.get('Meta: _livora_brand_name', row.get('Brand', '')))
row_brand(file, i) ==
    py_str(row_get(file, i, COL_META_BRAND, row_get(file, i, COL_BRAND, StrCell(<<>>))))

\* Product(...) of the i-th row, or the exception its construction raises
row_product(file, i) ==
    LET price == py_float(row_get(file, i, COL_PRICE, NumCell(0, FALSE)))
        skin == parse_skin_types_cell(row_get(file, i, COL_SKIN, StrCell(<<>>)))
        ingredients ==
            parse_ingredients_cell(row_get(file, i, COL_INGREDIENTS, StrCell(<<>>)))
    IN  IF price.raised \/ skin.raised \/ ingredients.raised THEN Raised
        ELSE Value([
            id |-> py_str(row_get(file, i, COL_ID, StrCell(<<>>))),
            name |-> py_str(row_get(file, i, COL_NAME, StrCell(<<>>))),
            brand |-> row_brand(file, i),
            category |-> py_str(row_get(file, i, COL_CATEGORIES, StrCell(<<>>))),
            price |-> price.val,
            description |-> py_str(row_get(file, i, COL_DESCRIPTION, StrCell(<<>>))),
            sku |-> py_str(row_get(file, i, COL_SKU, StrCell(<<>>))),
            skin_types |-> skin.val,
            ingredients |-> ingredients.val,
            usage |-> py_str(row_get(file, i, COL_USAGE, StrCell(<<>>))),
            image_urls |-> None,
            seo_content |-> None,
            enhanced_description |-> None])

\* the loop over df.iterrows() from row i on, with the products built so far
RECURSIVE load_rows(_, _, _)
load_rows(file, i, built) ==
    IF i > Len(file.rows) THEN Value(built)
    ELSE LET p == row_product(file, i) IN
         IF p.raised THEN Raised
         ELSE load_rows(file, i + 1, Append(built, p.val))

load_csv_stores_partial(file, self_products) ==
    LET parsed == IF file.readable THEN load_rows(file, 1, <<>>) ELSE Raised
        n == IF ~file.readable THEN 0
             ELSE CHOOSE n \in 0..Len(file.rows) :
                     /\ \A i \in 1..n : ~row_product(file, i).raised
                     /\ n < Len(file.rows) => row_product(file, n + 1).raised
    IN  IF parsed.raised
        THEN [ret |-> <<>>, products |-> [i \in 1..n |-> row_product(file, i).val]]
        ELSE [ret |-> parsed.val, products |-> parsed.val]

\* load_csv: what it returns and what it leaves in self.products
load_csv(file, self_products) ==
    LET parsed == IF file.readable THEN load_rows(file, 1, <<>>) ELSE Raised IN
    IF parsed.raised
    THEN [ret |-> <<>>, products |-> self_products]
    ELSE [ret |-> parsed.val, products |-> parsed.val]

----------------------------------------------------------------------------
(* More Python str primitives, and insertion-ordered dicts                  *)

UpperCase == <<"A", "B", "C", "D", "E", "F", "G", "H", "I", "J", "K", "L", "M",
               "N", "O", "P", "Q", "R", "S", "T", "U", "V", "W", "X", "Y", "Z">>

LowerCase == <<"a", "b", "c", "d", "e", "f", "g", "h", "i", "j", "k", "l", "m",
               "n", "o", "p", "q", "r", "s", "t", "u", "v", "w", "x", "y", "z">>

lower_char(c) ==
    IF \E k \in 1..Len(UpperCase) : UpperCase[k] = c
    THEN LowerCase[CHOOSE k \in 1..Len(UpperCase) : UpperCase[k] = c]
    ELSE c

\* str.lower()
lower(s) == [i \in 1..Len(s) |-> lower_char(s[i])]

\* sep.join(pieces)
RECURSIVE str_join(_, _)
str_join(sep, pieces) ==
    IF pieces = <<>> THEN <<>>
    ELSE IF Len(pieces) = 1 THEN pieces[1]
    ELSE pieces[1] \o sep \o str_join(sep, Tail(pieces))

\* str.replace(old, new), old not empty
str_replace(s, old, new) == str_join(new, str_split(s, old))

\* a literal part of an f-string, kept as one element of the string
Lit(text) == <<text>>

\* a dict is the sequence of its items in insertion order
dict_keys(d) == [i \in 1..Len(d) |-> d[i].key]

\* `key in d`
dict_has(d, key) == \E i \in 1..Len(d) : d[i].key = key

dict_index(d, key) == CHOOSE i \in 1..Len(d) : d[i].key = key

\* d[key]
dict_get(d, key) == d[dict_index(d, key)].value

\* d[key] = value: a new key goes to the end, a known key keeps its place
dict_set(d, key, value) ==
    IF dict_has(d, key)
    THEN [d EXCEPT ![dict_index(d, key)] = [key |-> key, value |-> value]]
    ELSE Append(d, [key |-> key, value |-> value])

\* an optional string of a JSON payload: product.get(key)
Str(s) == [kind |-> "str", s |-> s]

py_get(product, key) == IF key \in DOMAIN product THEN Str(product[key]) ELSE None

----------------------------------------------------------------------------
(* BeautyProductManager.generate_brand_pages *)

\* list(a_set): the members in the order the interpreter's string hashing
\* puts them, which the hash seed of the process decides
set_to_list(members, seed) == SelectSeq(seed, LAMBDA x : x \in members)

brand_page_new(brand) ==
    [name |-> brand,
     products |-> <<>>,
     categories |-> {},
     content |-> [about |-> Lit("About ") \o brand,
                  philosophy |-> brand \o Lit(" philosophy"),
                  products_count |-> 0]]

\* one pass of the first loop: create the brand's entry when it is new, then
\* append the product and add its category
brand_pages_step(brands, product) ==
    LET created == IF dict_has(brands, product.brand) THEN brands
                   ELSE dict_set(brands, product.brand, brand_page_new(product.brand))
        data == dict_get(created, product.brand)
    IN  dict_set(created, product.brand,
                 [data EXCEPT !.products = Append(@, product),
                              !.categories = @ \cup {product.category}])

RECURSIVE brand_pages_loop(_, _, _)
brand_pages_loop(prods, i, brands) ==
    IF i > Len(prods) THEN brands
    ELSE brand_pages_loop(prods, i + 1, brand_pages_step(brands, prods[i]))

\* the second loop: sets become lists, products_count is filled in
brand_pages_finish(brands, seed) ==
    [i \in 1..Len(brands) |->
        [key |-> brands[i].key,
         value |-> [brands[i].value EXCEPT
                       !.categories = set_to_list(@, seed),
                       !.content.products_count = Len(brands[i].value.products)]]]

generate_brand_pages(prods, seed) ==
    brand_pages_finish(brand_pages_loop(prods, 1, <<>>), seed)

----------------------------------------------------------------------------
(* main.generate_json_pages: the /generate-json-pages handler *)

\* product.get('Meta: _livora_brand_name') or product.get('Brand', 'Unknown')
json_brand(product) ==
    IF COL_META_BRAND \in DOMAIN product /\ product[COL_META_BRAND] # <<>>
    THEN product[COL_META_BRAND]
    ELSE IF COL_BRAND \in DOMAIN product THEN product[COL_BRAND]
         ELSE <<"U", "n", "k", "n", "o", "w", "n">>

\* product.get('Categories', 'Unknown')
json_category(product) ==
    IF COL_CATEGORIES \in DOMAIN product THEN product[COL_CATEGORIES]
    ELSE <<"U", "n", "k", "n", "o", "w", "n">>

\* brand.lower().replace(' ', '-').replace("'", '')
json_brand_slug(brand) ==
    str_replace(str_replace(lower(brand), <<" ">>, <<"-">>), <<"'">>, <<>>)

\* category.lower().replace(' ', '-')
json_category_slug(category) == str_replace(lower(category), <<" ">>, <<"-">>)

\* product.get(key, '').split(sep) if product.get(key) else []
json_split_field(product, key, sep) ==
    IF key \in DOMAIN product /\ product[key] # <<>>
    THEN str_split(product[key], sep)
    ELSE <<>>

json_brand_new(brand) ==
    [name |-> brand,
     slug |-> json_brand_slug(brand),
     products |-> <<>>,
     description |-> Lit("Premium ") \o brand \o Lit(" products at Livora"),
     meta |-> [title |-> brand \o Lit(" Products - Livora"),
               description |-> Lit("Shop authentic ") \o brand
                                  \o Lit(" products with best price guarantee"),
               keywords |-> brand \o Lit(", ") \o lower(brand)
                               \o Lit(" products, buy ") \o brand]]

\* the dict appended to a brand's products
json_brand_item(product) ==
    [id |-> py_get(product, COL_ID),
     name |-> py_get(product, COL_NAME),
     sku |-> py_get(product, COL_SKU),
     price |-> py_get(product, COL_PRICE),
     description |-> py_get(product, "Short description"),
     image |-> py_get(product, "Images"),
     category |-> py_get(product, COL_CATEGORIES),
     skin_types |-> json_split_field(product, COL_SKIN, <<",">>),
     ingredients |-> json_split_field(product, COL_INGREDIENTS, <<"|">>)]

json_category_new(category) ==
    [name |-> category,
     slug |-> json_category_slug(category),
     products |-> <<>>,
     description |-> Lit("Browse ") \o category \o Lit(" products at Livora"),
     meta |-> [title |-> category \o Lit(" Products - Livora"),
               description |-> Lit("Shop premium ") \o category
                                  \o Lit(" products with authentic brands"),
               keywords |-> category \o Lit(", ") \o lower(category)
                               \o Lit(" products, buy ") \o category]]

\* product.get('Meta: _livora_brand_name') or product.get('Brand')
json_item_brand(product) ==
    IF COL_META_BRAND \in DOMAIN product /\ product[COL_META_BRAND] # <<>>
    THEN Str(product[COL_META_BRAND])
    ELSE py_get(product, COL_BRAND)

\* the dict appended to a category's products
json_category_item(product) ==
    [id |-> py_get(product, COL_ID),
     name |-> py_get(product, COL_NAME),
     sku |-> py_get(product, COL_SKU),
     price |-> py_get(product, COL_PRICE),
     brand |-> json_item_brand(product),
     image |-> py_get(product, "Images"),
     description |-> py_get(product, "Short description")]

group_always_create(groups, key, fresh, item) ==
    dict_set(groups, key, [fresh EXCEPT !.products = Append(@, item)])

group_step_prepend(groups, key, fresh, item) ==
    LET created == IF dict_has(groups, key) THEN groups
                   ELSE dict_set(groups, key, fresh)
    IN  dict_set(created, key,
                 [dict_get(created, key) EXCEPT !.products = <<item>> \o @])

group_merge_same_slug(groups, key, fresh, item) ==
    LET same == {i \in 1..Len(groups) : groups[i].value.slug = fresh.slug}
    IN  IF same = {}
        THEN Append(groups, [key |-> key,
                             value |-> [fresh EXCEPT !.products = <<item>>]])
        ELSE LET i == CHOOSE i \in same : TRUE
             IN  [groups EXCEPT ![i].value.products = Append(@, item)]

group_skip_empty_key(groups, key, fresh, item) ==
    IF key = <<>> THEN groups
    ELSE LET created == IF dict_has(groups, key) THEN groups
                        ELSE dict_set(groups, key, fresh)
         IN  dict_set(created, key,
                      [dict_get(created, key) EXCEPT !.products = Append(@, item)])

\* one pass of a grouping loop: `if key not in groups: groups[key] = fresh`,
\* then `groups[key]["products"].append(item)`
group_step(groups, key, fresh, item) ==
    LET created == IF dict_has(groups, key) THEN groups
                   ELSE dict_set(groups, key, fresh)
    IN  dict_set(created, key,
                 [dict_get(created, key) EXCEPT !.products = Append(@, item)])

RECURSIVE json_brands_loop(_, _, _)
json_brands_loop(prods, i, brands) ==
    IF i > Len(prods) THEN brands
    ELSE json_brands_loop(prods, i + 1,
            group_step(brands, json_brand(prods[i]),
                       json_brand_new(json_brand(prods[i])),
                       json_brand_item(prods[i])))

RECURSIVE json_categories_loop(_, _, _)
json_categories_loop(prods, i, categories) ==
    IF i > Len(prods) THEN categories
    ELSE json_categories_loop(prods, i + 1,
            group_step(categories, json_category(prods[i]),
                       json_category_new(json_category(prods[i])),
                       json_category_item(prods[i])))

sitemap_entry(url, changefreq, priority) ==
    [url |-> url, changefreq |-> changefreq, priority |-> priority]

sitemap_bootstrap_reordered ==
    << sitemap_entry(Lit("/"), "daily", "1.0"),
       sitemap_entry(Lit("/brands"), "weekly", "0.8"),
       sitemap_entry(Lit("/products"), "daily", "0.9"),
       sitemap_entry(Lit("/categories"), "weekly", "0.8") >>

sitemap_bootstrap ==
    << sitemap_entry(Lit("/"), "daily", "1.0"),
       sitemap_entry(Lit("/products"), "daily", "0.9"),
       sitemap_entry(Lit("/brands"), "weekly", "0.8"),
       sitemap_entry(Lit("/categories"), "weekly", "0.8") >>

build_sitemap_categories_first(brands, categories) ==
    sitemap_bootstrap
    \o [i \in 1..Len(categories) |->
          sitemap_entry(Lit("/category/") \o categories[i].value.slug, "weekly", "0.7")]
    \o [i \in 1..Len(brands) |->
          sitemap_entry(Lit("/brand/") \o brands[i].value.slug, "weekly", "0.7")]

\* the two loops over the keys of the brand map and of the category map
build_sitemap(brands, categories) ==
    sitemap_bootstrap
    \o [i \in 1..Len(brands) |->
          sitemap_entry(Lit("/brand/") \o brands[i].value.slug, "weekly", "0.7")]
    \o [i \in 1..Len(categories) |->
          sitemap_entry(Lit("/category/") \o categories[i].value.slug, "weekly", "0.7")]

\* json_pages as the handler returns it (the static "pages" block and the
\* generated_at time stamp are not part of the grouping)
generate_json_pages(prods) ==
    LET brands == json_brands_loop(prods, 1, <<>>)
        categories == json_categories_loop(prods, 1, <<>>)
    IN  [products |-> prods,
         brands |-> brands,
         categories |-> categories,
         sitemap |-> build_sitemap(brands, categories)]

----------------------------------------------------------------------------
(* agents.DeveloperAgent._generate_json_pages *)

\* product.get('brand', 'Unknown')
dev_brand(product) ==
    IF "brand" \in DOMAIN product THEN product["brand"]
    ELSE <<"U", "n", "k", "n", "o", "w", "n">>

\* product.get('category', 'Unknown')
dev_category(product) ==
    IF "category" \in DOMAIN product THEN product["category"]
    ELSE <<"U", "n", "k", "n", "o", "w", "n">>

\* name.lower().replace(' ', '-'), for brands and categories alike
dev_slug(name) == str_replace(lower(name), <<" ">>, <<"-">>)

dev_brand_new(brand) ==
    [name |-> brand,
     slug |-> dev_slug(brand),
     products |-> <<>>,
     description |-> Lit("Products from ") \o brand,
     meta |-> [title |-> brand \o Lit(" Products - Livora"),
               description |-> Lit("Browse ") \o brand \o Lit(" products at Livora")]]

dev_category_new(category) ==
    [name |-> category,
     slug |-> dev_slug(category),
     products |-> <<>>,
     description |-> Lit("Browse ") \o category \o Lit(" products"),
     meta |-> [title |-> category \o Lit(" Products - Livora"),
               description |-> Lit("Browse ") \o category \o Lit(" products at Livora")]]

RECURSIVE dev_brands_loop(_, _, _)
dev_brands_loop(prods, i, brands) ==
    IF i > Len(prods) THEN brands
    ELSE dev_brands_loop(prods, i + 1,
            group_step(brands, dev_brand(prods[i]),
                       dev_brand_new(dev_brand(prods[i])), prods[i]))

RECURSIVE dev_categories_loop(_, _, _)
dev_categories_loop(prods, i, categories) ==
    IF i > Len(prods) THEN categories
    ELSE dev_categories_loop(prods, i + 1,
            group_step(categories, dev_category(prods[i]),
                       dev_category_new(dev_category(prods[i])), prods[i]))

\* the json_pages in the data of the Response
dev_generate_json_pages(prods) ==
    LET brands == dev_brands_loop(prods, 1, <<>>)
        categories == dev_categories_loop(prods, 1, <<>>)
    IN  [products |-> prods,
         brands |-> brands,
         categories |-> categories,
         sitemap |-> build_sitemap(brands, categories)]

----------------------------------------------------------------------------
(* Specification of the list parsers: every raw string up to MaxLen over    *)
(* the delimiters, blank and two letters is parsed by both parsers.         *)

ParseAlphabet == {",", ";", "|", PersianComma, " ", "a", "b"}

RawStrings == UNION {[1..n -> ParseAlphabet] : n \in 0..MaxLen}

InitParse ==
    /\ products = <<>>
    /\ processed_products = <<>>
    /\ hashseed = 0
    /\ request \in {[op |-> "idle", arg |-> s] : s \in RawStrings}
    /\ response = None
    /\ previous = None
    /\ config = default_config
    /\ effects = <<>>

ParseSkinTypes ==
    /\ request.op = "idle"
    /\ request' = [request EXCEPT !.op = "parse_skin_types"]
    /\ response' = parse_skin_types(request.arg)
    /\ UNCHANGED <<products, processed_products, hashseed, previous, config, effects>>

ParseIngredients ==
    /\ request.op = "idle"
    /\ request' = [request EXCEPT !.op = "parse_ingredients"]
    /\ response' = parse_ingredients(request.arg)
    /\ UNCHANGED <<products, processed_products, hashseed, previous, config, effects>>

NextParse == ParseSkinTypes \/ ParseIngredients

SpecParse == InitParse /\ [][NextParse]_vars

----------------------------------------------------------------------------
(* Properties of the list parsers *)

\* the keys of a sequence in the order of their first appearance
RECURSIVE FirstSeen(_, _)
FirstSeen(keys, seen) ==
    IF keys = <<>> THEN <<>>
    ELSE IF Head(keys) \in seen THEN FirstSeen(Tail(keys), seen)
    ELSE <<Head(keys)>> \o FirstSeen(Tail(keys), seen \cup {Head(keys)})

ListDelimiters == <<",", ";", "|", PersianComma>>

Parsed == request.op \in {"parse_skin_types", "parse_ingredients"}

HasChar(s, c) == \E i \in 1..Len(s) : s[i] = c

CountChar(s, c) == Cardinality({i \in 1..Len(s) : s[i] = c})

\* s without the characters of the set drop
RECURSIVE Without(_, _)
Without(s, drop) ==
    IF s = <<>> THEN <<>>
    ELSE (IF Head(s) \in drop THEN <<>> ELSE <<Head(s)>>) \o Without(Tail(s), drop)

RECURSIVE Flatten(_)
Flatten(pieces) ==
    IF pieces = <<>> THEN <<>> ELSE Head(pieces) \o Flatten(Tail(pieces))

\* the delimiters of the priority list that come before the k-th do not occur in s
NoEarlierDelimiter(s, k) == \A j \in 1..(k - 1) : ~HasChar(s, ListDelimiters[j])

\* C5: the parsers split on exactly one delimiter, the first of comma,
\* semicolon, pipe, Persian comma that occurs in the string: no piece holds
\* that delimiter, there are at most (occurrences + 1) pieces, and every other
\* character that is not blank, lower-priority delimiters included, is kept
\* in its place inside the pieces.
C5_SplitOnFirstDelimiterOnly ==
    Parsed =>
        \A k \in 1..Len(ListDelimiters) :
            (HasChar(request.arg, ListDelimiters[k]) /\ NoEarlierDelimiter(request.arg, k)) =>
                /\ \A i \in 1..Len(response) : ~HasChar(response[i], ListDelimiters[k])
                /\ Len(response) <= CountChar(request.arg, ListDelimiters[k]) + 1
                /\ Without(Flatten(response), Whitespace)
                      = Without(request.arg, Whitespace \cup {ListDelimiters[k]})

\* "a;b|" is split on the semicolon only: the pipe stays inside the piece
C5_Witness ==
    /\ request.op = "parse_ingredients"
    /\ request.arg = <<"a", ";", "b", "|">>
    /\ response = << <<"a">>, <<"b", "|">> >>

NoDelimiter(s) == \A k \in 1..Len(ListDelimiters) : ~HasChar(s, ListDelimiters[k])

AllBlank(s) == \A i \in 1..Len(s) : s[i] \in Whitespace

\* t is s without its leading and trailing blanks
IsTrimOf(t, s) ==
    /\ t # <<>>
    /\ t[1] \notin Whitespace
    /\ t[Len(t)] \notin Whitespace
    /\ \E i \in 1..Len(s) :
          /\ i + Len(t) - 1 <= Len(s)
          /\ SubSeq(s, i, i + Len(t) - 1) = t
          /\ AllBlank(SubSeq(s, 1, i - 1))
          /\ AllBlank(SubSeq(s, i + Len(t), Len(s)))

\* C6: the returned list has no empty element and no element with leading or
\* trailing whitespace; a string without delimiter gives the one-element list
\* of its trimmed value, an empty or blank string gives the empty list.
C6_PiecesTrimmedNonEmpty ==
    Parsed =>
        /\ \A i \in 1..Len(response) :
              /\ response[i] # <<>>
              /\ response[i][1] \notin Whitespace
              /\ response[i][Len(response[i])] \notin Whitespace
        /\ AllBlank(request.arg) => response = <<>>
        /\ (NoDelimiter(request.arg) /\ ~AllBlank(request.arg)) =>
              /\ Len(response) = 1
              /\ IsTrimOf(response[1], request.arg)

\* "a , b" gives ["a", "b"]: blanks around the pieces are gone
C6_Witness ==
    /\ request.op = "parse_skin_types"
    /\ request.arg = <<"a", " ", ",", "b">>
    /\ response = << <<"a">>, <<"b">> >>

\* the string holds the padded pipe ' | '
HasPaddedPipe(s) ==
    \E i \in 1..(Len(s) - 2) : s[i] = " " /\ s[i + 1] = "|" /\ s[i + 2] = " "

\* C23: parse_ingredients and parse_skin_types return the same list for
\* every string: what either parser returned is what the other returns for
\* the same string, and a string that holds the padded pipe ' | ' is split
\* on one of the four single-character delimiters.
C23_ParsersAgree ==
    /\ request.op = "parse_ingredients" => response = parse_skin_types(request.arg)
    /\ request.op = "parse_skin_types" => response = parse_ingredients(request.arg)
    /\ (request.op = "parse_ingredients" /\ HasPaddedPipe(request.arg)) =>
          \E k \in 1..Len(skin_separators) :
              /\ str_contains(request.arg, skin_separators[k])
              /\ \A j \in 1..(k - 1) : ~str_contains(request.arg, skin_separators[j])
              /\ response = strip_pieces(str_split(request.arg, skin_separators[k]))

\* 'a | ' given to parse_ingredients: split on the plain pipe, one piece
C23_Witness ==
    /\ request.op = "parse_ingredients"
    /\ request.arg = <<"a", " ", "|", " ">>
    /\ response = << <<"a">> >>

----------------------------------------------------------------------------
(* Specification of the manager: a constructed BeautyProductManager serves  *)
(* a load_csv call on a CSV file.                                          *)

\* the columns whose presence and cell texts vary over the files
VariedColumns == {COL_META_BRAND, COL_BRAND, COL_PRICE, COL_SKIN}

\* the raw texts a cell of the column holds in the files
ColumnTexts(col) ==
    CASE col = COL_NAME -> {<<"p">>}
      [] col = COL_META_BRAND -> {<<>>, <<"A", "c">>}
      [] col = COL_BRAND -> {<<"Z", "e">>}
      [] col = COL_PRICE -> {<<"1", "0">>, <<"N", "/", "A">>, <<>>, <<"$", "5">>}
      [] col = COL_SKIN -> {<<>>, <<"a", ",", "b">>}

AllTexts == UNION {ColumnTexts(col) : col \in VariedColumns \cup {COL_NAME}}

RowsOver(cols) == {r \in [cols -> AllTexts] : \A c \in cols : r[c] \in ColumnTexts(c)}

UnreadableFile == [readable |-> FALSE, columns |-> {}, rows |-> <<>>]

ReadableFiles ==
    UNION {
        UNION {
            {[readable |-> TRUE, columns |-> {COL_NAME} \cup cs, rows |-> rs] :
                rs \in [1..n -> RowsOver({COL_NAME} \cup cs)]} :
            n \in 0..MaxRows} :
        cs \in SUBSET VariedColumns}

CsvFiles == {UnreadableFile} \cup ReadableFiles

Init ==
    /\ products = <<>>
    /\ processed_products = <<>>
    /\ hashseed = 0
    /\ request = [op |-> "idle", arg |-> <<>>]
    /\ response = None
    /\ previous = None
    /\ config = default_config
    /\ effects = <<>>

LoadCsv ==
    /\ request.op = "idle"
    /\ \E file \in CsvFiles :
          LET r == load_csv(file, products) IN
          /\ request' = [op |-> "load_csv", arg |-> file]
          /\ response' = r.ret
          /\ products' = r.products
    /\ UNCHANGED <<processed_products, hashseed, previous, config, effects>>

\* EnhancedBeautyProductManager.process_with_agents: the result dict and what
\* is left in self.products. With products loaded, building the workflow
\* evaluates p.Images, which no Product has: AttributeError, caught at the end
process_with_agents(file, self_products) ==
    LET loaded == load_csv(file, self_products) IN
    IF loaded.ret = <<>>
    THEN [ret |-> [error |-> "No products loaded"], products |-> loaded.products]
    ELSE [ret |-> [error |-> "'Product' object has no attribute 'Images'",
                   status |-> "failed"],
          products |-> loaded.products]

ProcessWithAgents ==
    /\ request.op = "idle"
    /\ \E file \in CsvFiles :
          LET r == process_with_agents(file, products) IN
          /\ request' = [op |-> "process_with_agents", arg |-> file]
          /\ response' = r.ret
          /\ products' = r.products
    /\ UNCHANGED <<processed_products, hashseed, previous, config, effects>>

Next == LoadCsv \/ ProcessWithAgents

Spec == Init /\ [][Next]_vars

----------------------------------------------------------------------------
(* Properties of load_csv *)

Loaded == request.op = "load_csv"

Unknown == <<"U", "n", "k", "n", "o", "w", "n">>

\* C1: load_csv returns one Product per row of the file, the i-th built from
\* the i-th row, whatever the rows' field values are.
C1_EveryRowGivesAProduct ==
    (Loaded /\ request.arg.readable) =>
        /\ Len(response) = Len(request.arg.rows)
        /\ \A i \in 1..Len(request.arg.rows) :
              response[i].name = request.arg.rows[i][COL_NAME]

\* C2: a row whose 'Regular price' is empty or no number becomes a Product
\* with price 0, and the row and the others are still parsed.
C2_MalformedPriceGivesZero ==
    (Loaded /\ request.arg.readable /\ COL_PRICE \in request.arg.columns) =>
        \A i \in 1..Len(request.arg.rows) :
            ~IsNumericText(request.arg.rows[i][COL_PRICE]) =>
                /\ Len(response) = Len(request.arg.rows)
                /\ response[i].price = Float(0)

\* a readable file that holds the header line and no product
EmptyCatalogFile == [readable |-> TRUE, columns |-> {COL_NAME}, rows |-> <<>>]

\* C3: what load_csv, and process_with_agents built on it, return for an
\* unreadable input differs from what they return for a readable input
\* without products.
C3_UnreadableDistinguishable ==
    /\ (Loaded /\ ~request.arg.readable) =>
          response # load_csv(EmptyCatalogFile, products).ret
    /\ (request.op = "process_with_agents" /\ ~request.arg.readable) =>
          response # process_with_agents(EmptyCatalogFile, products).ret

\* C4: the brand of a Product is the brand metadata column's value when the
\* file has that column, else the 'Brand' column's value when the file has
\* it, else "Unknown"; the JSON-page grouping keys its brand map by the
\* brands resolved the same way.
C4_BrandFallback ==
    /\ (Loaded /\ request.arg.readable /\ Len(response) = Len(request.arg.rows)) =>
          \A i \in 1..Len(response) :
              response[i].brand =
                  IF COL_META_BRAND \in request.arg.columns
                  THEN request.arg.rows[i][COL_META_BRAND]
                  ELSE IF COL_BRAND \in request.arg.columns
                       THEN request.arg.rows[i][COL_BRAND]
                       ELSE Unknown
    /\ request.op = "generate_json_pages" =>
          dict_keys(response.brands)
             = FirstSeen([k \in 1..Len(request.arg) |->
                            IF COL_META_BRAND \in DOMAIN request.arg[k]
                            THEN request.arg[k][COL_META_BRAND]
                            ELSE IF COL_BRAND \in DOMAIN request.arg[k]
                                 THEN request.arg[k][COL_BRAND]
                                 ELSE Unknown], {})

----------------------------------------------------------------------------
(* Specification of the aggregators: a product sequence arrives for one of  *)
(* generate_brand_pages, /generate-json-pages and the developer agent's     *)
(* json_generation task; the operation runs on it, and may run on it again, *)
(* also after the process was restarted.                                    *)

NameLOreal == <<"L", "'", "O", " ", "p">>
NameZed == <<"Z", "e">>
NameMens == <<"M", "'", "s", " ", "c">>
NameSkin == <<"S", "k">>

\* a dict with the given keys among its keys, the other keys missing
DictsOver(texts) ==
    UNION {{d \in [keys -> UNION {texts[k] : k \in DOMAIN texts}] :
                \A k \in keys : d[k] \in texts[k]} :
           keys \in SUBSET DOMAIN texts}

\* products of a /generate-json-pages payload: rows of the uploaded table
JsonProducts ==
    DictsOver([c \in {COL_META_BRAND, COL_BRAND, COL_CATEGORIES} |->
                 CASE c = COL_META_BRAND -> {<<>>, NameLOreal}
                   [] c = COL_BRAND -> {NameZed}
                   [] c = COL_CATEGORIES -> {NameMens}])

NameZedLower == <<"z", "e">>
NameSkinLower == <<"s", "k">>

\* rows of a payload whose brand names, and category names, differ in case
\* only: the names of a pair have the same slug
JsonCollidingProducts ==
    DictsOver([c \in {COL_BRAND, COL_CATEGORIES} |->
                 CASE c = COL_BRAND -> {NameZed, NameZedLower}
                   [] c = COL_CATEGORIES -> {NameSkin, NameSkinLower}])

\* rows of a payload whose 'Brand' and 'Categories' values may be the empty
\* string, and the row whose brand metadata value is empty as well
JsonEmptyKeyProducts ==
    {d \in DictsOver([c \in {COL_META_BRAND, COL_BRAND, COL_CATEGORIES} |->
                        CASE c = COL_META_BRAND -> {<<>>}
                          [] c = COL_BRAND -> {<<>>, NameZed}
                          [] c = COL_CATEGORIES -> {<<>>, NameSkin}]) :
        /\ {COL_BRAND, COL_CATEGORIES} \subseteq DOMAIN d
        /\ COL_META_BRAND \in DOMAIN d => d[COL_BRAND] = <<>> /\ d[COL_CATEGORIES] = <<>>}

\* products of the developer agent's task input
DevProducts ==
    DictsOver([c \in {"brand", "category"} |->
                 CASE c = "brand" -> {NameLOreal, NameZed}
                   [] c = "category" -> {NameMens}])

\* a Product as load_csv builds it, with the given brand and category
ProductOf(brand, category) ==
    [id |-> <<>>, name |-> <<"p">>, brand |-> brand, category |-> category,
     price |-> Float(0), description |-> <<>>, sku |-> <<>>,
     skin_types |-> <<>>, ingredients |-> <<>>, usage |-> <<>>,
     image_urls |-> None, seo_content |-> None, enhanced_description |-> None]

ProductObjects ==
    {ProductOf(b, c) : b \in {NameLOreal, NameZed, <<>>}, c \in {NameMens, NameSkin}}

SeqsUpTo(S, n) == UNION {[1..k -> S] : k \in 0..n}

\* the category names, in each order a hash seed can put them
HashSeeds ==
    {s \in [1..2 -> {NameMens, NameSkin}] : s[1] # s[2]}

\* a request not served yet: the operation it is for and its products
Arrived(target, ps) == [op |-> "idle", again |-> FALSE, target |-> target, arg |-> ps]

AggRequests ==
    {Arrived("generate_brand_pages", ps) : ps \in SeqsUpTo(ProductObjects, MaxProducts)}
    \cup {Arrived("generate_json_pages", ps) : ps \in SeqsUpTo(JsonProducts, MaxProducts)}
    \cup {Arrived("generate_json_pages", ps) :
              ps \in SeqsUpTo(JsonCollidingProducts, MaxProducts)}
    \cup {Arrived("generate_json_pages", ps) :
              ps \in SeqsUpTo(JsonEmptyKeyProducts, MaxProducts)}
    \cup {Arrived("dev_generate_json_pages", ps) : ps \in SeqsUpTo(DevProducts, MaxProducts)}

InitAgg ==
    /\ products = <<>>
    /\ processed_products = <<>>
    /\ hashseed \in HashSeeds
    /\ request \in AggRequests
    /\ response = None
    /\ previous = None
    /\ config = default_config
    /\ effects = <<>>

\* the operation answers the request; a repeated run keeps the earlier answer
Answer(target, result) ==
    /\ request.target = target
    /\ request' = [request EXCEPT !.op = target, !.again = (request.op = target)]
    /\ previous' = response
    /\ response' = result
    /\ UNCHANGED <<products, processed_products, hashseed, config, effects>>

GenerateBrandPages ==
    Answer("generate_brand_pages", generate_brand_pages(request.arg, hashseed))

GenerateJsonPages ==
    Answer("generate_json_pages", generate_json_pages(request.arg))

DevGenerateJsonPages ==
    Answer("dev_generate_json_pages", dev_generate_json_pages(request.arg))

\* the process is started anew: the interpreter draws another hash seed
Restart ==
    /\ hashseed' \in HashSeeds \ {hashseed}
    /\ UNCHANGED <<products, processed_products, request, response, previous,
                 config, effects>>

NextAgg == GenerateBrandPages \/ GenerateJsonPages \/ DevGenerateJsonPages \/ Restart

SpecAgg == InitAgg /\ [][NextAgg]_vars

----------------------------------------------------------------------------
(* Properties of the aggregators *)

JsonPagesDone == request.op \in {"generate_json_pages", "dev_generate_json_pages"}

BrandPagesDone == request.op = "generate_brand_pages"

\* the brand and the category the operation groups a product of its input by
BrandKey(p) ==
    CASE request.target = "generate_json_pages" -> json_brand(p)
      [] request.target = "dev_generate_json_pages" -> dev_brand(p)
      [] request.target = "generate_brand_pages" -> p.brand

CategoryKey(p) ==
    CASE request.target = "generate_json_pages" -> json_category(p)
      [] request.target = "dev_generate_json_pages" -> dev_category(p)

\* what the operation puts into an aggregate's list for a product
BrandItem(p) == IF request.target = "generate_json_pages" THEN json_brand_item(p) ELSE p

CategoryItem(p) ==
    IF request.target = "generate_json_pages" THEN json_category_item(p) ELSE p

BrandMap == IF BrandPagesDone THEN response ELSE response.brands

RECURSIVE SumLengths(_)
SumLengths(groups) ==
    IF groups = <<>> THEN 0
    ELSE Len(Head(groups).value.products) + SumLengths(Tail(groups))

\* each product is in the aggregate of its key and in none else: one
\* aggregate per key value of the input, holding as many products as the
\* input has with that key
Partitioned(groups, prods, Key(_)) ==
    /\ \A i, j \in 1..Len(groups) : groups[i].key = groups[j].key => i = j
    /\ {groups[i].key : i \in 1..Len(groups)} = {Key(prods[k]) : k \in 1..Len(prods)}
    /\ \A i \in 1..Len(groups) :
          /\ groups[i].value.name = groups[i].key
          /\ Len(groups[i].value.products)
                = Cardinality({k \in 1..Len(prods) : Key(prods[k]) = groups[i].key})
    /\ SumLengths(groups) = Len(prods)

\* C7: after aggregating, every product is exactly once in the brand
\* aggregate of its brand and in no other, and likewise for categories; there
\* is one aggregate per distinct key, and the list lengths sum to the number
\* of products.
C7_EveryProductInExactlyOneAggregate ==
    /\ (JsonPagesDone \/ BrandPagesDone) => Partitioned(BrandMap, request.arg, BrandKey)
    /\ JsonPagesDone => Partitioned(response.categories, request.arg, CategoryKey)
    /\ (BrandPagesDone \/ request.op = "dev_generate_json_pages") =>
          \A i \in 1..Len(BrandMap) :
              \A k \in 1..Len(BrandMap[i].value.products) :
                  BrandKey(BrandMap[i].value.products[k]) = BrandMap[i].key

\* three products, two of them of the brand seen first: two brand aggregates
C7_Witness ==
    /\ request.op = "generate_json_pages"
    /\ Len(request.arg) = 3
    /\ Len(response.brands) = 2
    /\ Len(response.brands[1].value.products) = 2
    /\ Len(response.categories) = 2

\* the items of the products with the key, in input order
ItemsWithKey(prods, key, Key(_), Item(_)) ==
    LET same == SelectSeq(prods, LAMBDA p : Key(p) = key)
    IN  [i \in 1..Len(same) |-> Item(same[i])]

InInputOrder(groups, prods, Key(_), Item(_)) ==
    /\ dict_keys(groups) = FirstSeen([k \in 1..Len(prods) |-> Key(prods[k])], {})
    /\ \A i \in 1..Len(groups) :
          groups[i].value.products = ItemsWithKey(prods, groups[i].key, Key, Item)

\* C8: the keys of the brand map and of the category map are in the order of
\* their first appearance in the input, and each aggregate lists its products
\* in their relative input order.
C8_AggregationKeepsInputOrder ==
    /\ (JsonPagesDone \/ BrandPagesDone) =>
          InInputOrder(BrandMap, request.arg, BrandKey, BrandItem)
    /\ JsonPagesDone =>
          InInputOrder(response.categories, request.arg, CategoryKey, CategoryItem)

\* rows of brands Zed, L'O p, Zed: Zed comes first and lists two products
C8_Witness ==
    /\ request.op = "generate_json_pages"
    /\ Len(request.arg) = 3
    /\ dict_keys(response.brands) = <<NameZed, NameLOreal>>
    /\ Len(response.brands[1].value.products) = 2
    /\ Len(response.brands[2].value.products) = 1

\* C9: running an aggregation again on the same product sequence gives a map
\* identical to the first, in keys, key order and every field of every
\* aggregate, the per-brand categories list included.
C9_AggregationDeterministic == request.again => response = previous

\* the slug of the specification: lower case, blanks to hyphens, no apostrophe
SlugOf(name) ==
    Without([i \in 1..Len(name) |->
                IF name[i] = " " THEN "-" ELSE lower_char(name[i])], {"'"})

\* C10: every brand aggregate's and every category aggregate's slug in the
\* JSON pages is its name in lower case with each blank replaced by a hyphen
\* and each apostrophe removed.
C10_SlugDerivation ==
    JsonPagesDone =>
        /\ \A i \in 1..Len(response.brands) :
              response.brands[i].value.slug = SlugOf(response.brands[i].value.name)
        /\ \A i \in 1..Len(response.categories) :
              response.categories[i].value.slug
                 = SlugOf(response.categories[i].value.name)

----------------------------------------------------------------------------
(* Properties of the sitemap and of colliding slugs *)

SitemapBrands == SubSeq(response.sitemap, 5, 4 + Len(response.brands))

SitemapCategories ==
    SubSeq(response.sitemap, 5 + Len(response.brands), Len(response.sitemap))

\* every key of the input has its own aggregate, named by the key and
\* listing the items of the products with exactly that key
KeptApart(groups, prods, Key(_), Item(_)) ==
    /\ \A k \in 1..Len(prods) :
          \E i \in 1..Len(groups) :
              /\ groups[i].key = Key(prods[k])
              /\ groups[i].value.name = Key(prods[k])
              /\ groups[i].value.products
                    = ItemsWithKey(prods, Key(prods[k]), Key, Item)
    /\ Cardinality({groups[i].key : i \in 1..Len(groups)})
          = Cardinality({Key(prods[k]) : k \in 1..Len(prods)})
    /\ Len(groups) = Cardinality({Key(prods[k]) : k \in 1..Len(prods)})

\* C11: names with the same slug are not merged: each distinct brand name
\* and each distinct category name of the input has its own aggregate, keyed
\* and named by the original name and holding the products of that name
\* only, and the sitemap has one entry per aggregate, so that two aggregates
\* of one slug give two entries of one url.
C11_CollidingSlugsKeptApart ==
    JsonPagesDone =>
        /\ KeptApart(response.brands, request.arg, BrandKey, BrandItem)
        /\ KeptApart(response.categories, request.arg, CategoryKey, CategoryItem)
        /\ Len(response.sitemap) = 4 + Len(response.brands) + Len(response.categories)
        /\ \A i, j \in 1..Len(response.brands) :
              response.brands[i].value.slug = response.brands[j].value.slug
                 => SitemapBrands[i].url = SitemapBrands[j].url
        /\ \A i, j \in 1..Len(response.categories) :
              response.categories[i].value.slug = response.categories[j].value.slug
                 => SitemapCategories[i].url = SitemapCategories[j].url

\* brands "Ze" and "ze" and categories "Sk" and "sk": two aggregates each,
\* with one slug, and the sitemap holds the url of each pair twice
C11_Witness ==
    /\ request.op = "generate_json_pages"
    /\ dict_keys(response.brands) = <<NameZed, NameZedLower>>
    /\ response.brands[1].value.slug = response.brands[2].value.slug
    /\ dict_keys(response.categories) = <<NameSkinLower, NameSkin>>
    /\ response.categories[1].value.slug = response.categories[2].value.slug
    /\ Len(response.sitemap) = 8
    /\ response.sitemap[5].url = response.sitemap[6].url
    /\ response.sitemap[7].url = response.sitemap[8].url

\* C12: whatever the products are, none included, the sitemap starts with
\* the entries of "/" (daily, 1.0), "/products" (daily, 0.9), "/brands"
\* (weekly, 0.8) and "/categories" (weekly, 0.8), in that order.
C12_SitemapBootstrapFirst ==
    JsonPagesDone =>
        /\ Len(response.sitemap) >= 4
        /\ SubSeq(response.sitemap, 1, 4)
              = << [url |-> <<"/">>, changefreq |-> "daily", priority |-> "1.0"],
                   [url |-> <<"/products">>, changefreq |-> "daily", priority |-> "0.9"],
                   [url |-> <<"/brands">>, changefreq |-> "weekly", priority |-> "0.8"],
                   [url |-> <<"/categories">>, changefreq |-> "weekly",
                    priority |-> "0.8"] >>

\* without products the sitemap is the four entries
C12_Witness ==
    /\ JsonPagesDone
    /\ request.arg = <<>>
    /\ Len(response.sitemap) = 4
    /\ response.sitemap[2].url = <<"/products">>

\* the sitemap entry of an aggregate
AggregateEntry(prefix, groups, key) ==
    [url |-> <<prefix>> \o dict_get(groups, key).slug,
     changefreq |-> "weekly", priority |-> "0.7"]

\* C13: after the four entries the sitemap holds the entry '/brand/{slug}'
\* (weekly, 0.7) of each brand aggregate in the order the brands are first
\* seen in the input, then the entry '/category/{slug}' (weekly, 0.7) of each
\* category aggregate in the order the categories are first seen, and
\* nothing else.
C13_SitemapBrandsThenCategories ==
    JsonPagesDone =>
        LET bs == FirstSeen([k \in 1..Len(request.arg) |-> BrandKey(request.arg[k])], {})
            cs == FirstSeen([k \in 1..Len(request.arg) |-> CategoryKey(request.arg[k])], {})
        IN  /\ Len(response.sitemap) = 4 + Len(bs) + Len(cs)
            /\ \A i \in 1..Len(bs) :
                  response.sitemap[4 + i] = AggregateEntry("/brand/", response.brands, bs[i])
            /\ \A i \in 1..Len(cs) :
                  response.sitemap[4 + Len(bs) + i]
                     = AggregateEntry("/category/", response.categories, cs[i])

\* brands Zed then L'O p, one category: seven entries, the brands' first
C13_Witness ==
    /\ request.op = "generate_json_pages"
    /\ dict_keys(response.brands) = <<NameZed, NameLOreal>>
    /\ dict_keys(response.categories) = <<NameMens>>
    /\ Len(response.sitemap) = 7
    /\ response.sitemap[5].url = <<"/brand/", "z", "e">>
    /\ response.sitemap[6].url = <<"/brand/", "l", "o", "-", "p">>
    /\ response.sitemap[7].url = <<"/category/", "m", "'", "s", "-", "c">>

----------------------------------------------------------------------------
(* Properties of the empty-string key *)

\* the products of the input whose key is the empty string
EmptyKeyed(prods, Key(_)) == {k \in 1..Len(prods) : Key(prods[k]) = <<>>}

\* when a product of the input has the empty string as its key, one
\* aggregate is keyed and named by the empty string and lists the items of
\* exactly those products, and the aggregates hold as many items as the
\* input has products
EmptyKeyGrouped(groups, prods, Key(_), Item(_)) ==
    /\ SumLengths(groups) = Len(prods)
    /\ EmptyKeyed(prods, Key) # {} =>
          /\ Cardinality({i \in 1..Len(groups) : groups[i].key = <<>>}) = 1
          /\ dict_get(groups, <<>>).name = <<>>
          /\ dict_get(groups, <<>>).products = ItemsWithKey(prods, <<>>, Key, Item)
          /\ Len(dict_get(groups, <<>>).products)
                = Cardinality(EmptyKeyed(prods, Key))

\* C21: the products whose resolved brand is the empty string are together
\* in one brand aggregate keyed by the empty string, and likewise for the
\* category in the JSON pages; no product is dropped and none of them is
\* put under another key.
C21_EmptyStringIsOrdinaryKey ==
    /\ (request.op \in {"generate_json_pages", "generate_brand_pages"}) =>
          EmptyKeyGrouped(BrandMap, request.arg, BrandKey, BrandItem)
    /\ request.op = "generate_json_pages" =>
          EmptyKeyGrouped(response.categories, request.arg, CategoryKey, CategoryItem)

\* three rows, the first two of brand '' and of category '': the
\* first brand aggregate and the first category aggregate are keyed by ''
\* and list two products
C21_Witness ==
    /\ request.op = "generate_json_pages"
    /\ Len(request.arg) = 3
    /\ dict_keys(response.brands) = <<<<>>, NameZed>>
    /\ Len(response.brands[1].value.products) = 2
    /\ dict_keys(response.categories) = <<<<>>, NameSkin>>
    /\ Len(response.categories[1].value.products) = 2

----------------------------------------------------------------------------
(* Optional and structured Python values: None, str, list, dict *)

List(items) == [kind |-> "list", items |-> items]

\* a dict value; its items are kept in insertion order
Dict(items) == [kind |-> "dict", items |-> items]

IntCell(n) == NumCell(n, FALSE)

\* bool(x) of None, a str, a list or a dict
truthy(v) ==
    CASE v.kind = "None" -> FALSE
      [] v.kind = "str" -> v.s # <<>>
      [] v.kind \in {"list", "dict"} -> v.items # <<>>

----------------------------------------------------------------------------
(* BeautyProductManager.export_to_csv *)

woocommerce_headers ==
    <<"ID", "Type", "SKU", "Name", "Published", "Is featured?",
      "Visibility in catalog", "Short description", "Description", "Tax status",
      "In stock?", "Stock", "Regular price", "Categories", "Tags", "Images",
      "Meta: _yoast_wpseo_title", "Meta: _yoast_wpseo_metadesc",
      "Meta: _yoast_wpseo_focuskw">>

enhanced_headers ==
    <<"ID", "SKU", "Name", "Brand", "Category", "Price", "Original Description",
      "Enhanced Description", "SEO Title", "SEO Description", "Keywords",
      "Image URLs">>

\* text[:200]
first_200(text) == SubSeq(text, 1, IF Len(text) < 200 THEN Len(text) ELSE 200)

\* product.price as a cell: a float
price_cell(product) ==
    IF product.price.nan THEN NaNCell ELSE NumCell(product.price.val, TRUE)

\* product.enhanced_description or product.description
description_or_original(product) ==
    IF truthy(product.enhanced_description)
    THEN product.enhanced_description.s
    ELSE product.description

\* ';'.join(product.image_urls or [])
joined_image_urls(product) ==
    IF truthy(product.image_urls)
    THEN str_join(<<";">>, product.image_urls.items)
    ELSE <<>>

\* product.seo_content.get(key, '') if product.seo_content else ''
seo_field(product, key) ==
    IF truthy(product.seo_content)
    THEN (IF dict_has(product.seo_content.items, key)
          THEN dict_get(product.seo_content.items, key).s
          ELSE <<>>)
    ELSE <<>>

\* the ID of the i-th row: enumerate(products, 1)
row_number(i) == IntCell(i)

\* the row list of the woocommerce branch for the i-th product
woocommerce_row(i, product) ==
    << row_number(i),
       StrCell(<<"simple">>),
       StrCell(product.sku),
       StrCell(product.name),
       IntCell(1),
       IntCell(0),
       StrCell(<<"visible">>),
       StrCell(first_200(product.description)),
       StrCell(description_or_original(product)),
       StrCell(<<"taxable">>),
       IntCell(1),
       IntCell(10),
       price_cell(product),
       StrCell(product.category),
       StrCell(<<>>),
       StrCell(joined_image_urls(product)),
       StrCell(seo_field(product, "meta_title")),
       StrCell(seo_field(product, "meta_description")),
       StrCell(str_split(seo_field(product, "keywords"), <<",">>)[1]) >>

\* the row list of the enhanced branch for the i-th product
enhanced_row(i, product) ==
    << row_number(i),
       StrCell(product.sku),
       StrCell(product.name),
       StrCell(product.brand),
       StrCell(product.category),
       price_cell(product),
       StrCell(product.description),
       StrCell(IF truthy(product.enhanced_description)
               THEN product.enhanced_description.s ELSE <<>>),
       StrCell(seo_field(product, "meta_title")),
       StrCell(seo_field(product, "meta_description")),
       StrCell(seo_field(product, "keywords")),
       StrCell(joined_image_urls(product)) >>

\* csv.writer.writerow: each value of the row as the text str() gives
csv_writerow(row) == [c \in 1..Len(row) |-> py_str(row[c])]

\* what an exporter hands back: the file it wrote, or the exception raised
Exported(filename, headers, rows) ==
    [ok |-> TRUE, filename |-> filename, headers |-> headers, rows |-> rows]

ExportFailed ==
    [ok |-> FALSE, filename |-> <<>>, headers |-> <<>>, rows |-> <<>>]

\* export_to_csv: the name it returns and the header and rows of the file it
\* wrote; a format that is neither of the two leaves `filename` unbound and
\* the return raises
export_to_csv(prods, format) ==
    CASE format = "woocommerce" ->
            Exported(<<"woocommerce_products_", "{timestamp}", ".csv">>,
                     woocommerce_headers,
                     [i \in 1..Len(prods) |-> csv_writerow(woocommerce_row(i, prods[i]))])
      [] format = "enhanced" ->
            Exported(<<"enhanced_products_", "{timestamp}", ".csv">>,
                     enhanced_headers,
                     [i \in 1..Len(prods) |-> csv_writerow(enhanced_row(i, prods[i]))])
      [] OTHER -> ExportFailed

----------------------------------------------------------------------------
(* main.export_csv: the /export-csv handler, over the dicts of the payload  *)

\* product.get(key, default): the value under the key, None (JSON null)
\* included; the default only when the key is missing
payload_get(product, key, default) ==
    IF key \in DOMAIN product THEN product[key] ELSE default

\* product.get('seo_content', {}).get(key, ''): AttributeError when the value
\* under 'seo_content' is not a dict
handler_seo_field(product, key) ==
    LET seo == payload_get(product, "seo_content", Dict(<<>>)) IN
    IF seo.kind # "dict" THEN Raised
    ELSE Value(IF dict_has(seo.items, key) THEN dict_get(seo.items, key)
               ELSE Str(<<>>))

\* s.get('keywords', '').split(',')[0] if s.get('keywords') else '', with
\* s = product.get('seo_content', {})
handler_focus_keyword(product) ==
    LET keywords == handler_seo_field(product, "keywords") IN
    IF keywords.raised THEN Raised
    ELSE IF truthy(keywords.val)
         THEN Value(Str(str_split(keywords.val.s, <<",">>)[1]))
         ELSE Value(Str(<<>>))

\* ';'.join(product.get('scraped_images', [])): TypeError when the value is
\* None; a str is joined character by character
handler_images(product) ==
    LET images == payload_get(product, "scraped_images", List(<<>>)) IN
    CASE images.kind = "list" -> Value(Str(str_join(<<";">>, images.items)))
      [] images.kind = "str" ->
            Value(Str(str_join(<<";">>, [c \in 1..Len(images.s) |-> <<images.s[c]>>])))
      [] OTHER -> Raised

\* str(product.get('Description', ''))[:200]
handler_short_description(product) ==
    LET description == payload_get(product, COL_DESCRIPTION, Str(<<>>)) IN
    Str(first_200(IF description.kind = "None" THEN <<"N", "o", "n", "e">>
                  ELSE description.s))

\* product.get('enhanced_description', product.get('Description', ''))
handler_description(product) ==
    payload_get(product, "enhanced_description",
                payload_get(product, COL_DESCRIPTION, Str(<<>>)))

\* the dict appended to df_data in the woocommerce branch, as the list of its
\* values in key order; the exception when building it raises
handler_woocommerce_row(i, product) ==
    LET images == handler_images(product)
        title == handler_seo_field(product, "meta_title")
        metadesc == handler_seo_field(product, "meta_description")
        focuskw == handler_focus_keyword(product)
    IN  IF images.raised \/ title.raised \/ metadesc.raised \/ focuskw.raised
        THEN Raised
        ELSE Value(<< row_number(i),
                      Str(<<"simple">>),
                      payload_get(product, COL_SKU, Str(<<>>)),
                      payload_get(product, COL_NAME, Str(<<>>)),
                      IntCell(1),
                      IntCell(0),
                      Str(<<"visible">>),
                      handler_short_description(product),
                      handler_description(product),
                      Str(<<"taxable">>),
                      IntCell(1),
                      IntCell(10),
                      payload_get(product, COL_PRICE, IntCell(0)),
                      payload_get(product, COL_CATEGORIES, Str(<<>>)),
                      payload_get(product, "Tags", Str(<<>>)),
                      images.val,
                      title.val,
                      metadesc.val,
                      focuskw.val >>)

\* the dict appended to df_data in the other branch
handler_enhanced_row(i, product) ==
    LET images == handler_images(product)
        title == handler_seo_field(product, "meta_title")
        metadesc == handler_seo_field(product, "meta_description")
        keywords == handler_seo_field(product, "keywords")
    IN  IF images.raised \/ title.raised \/ metadesc.raised \/ keywords.raised
        THEN Raised
        ELSE Value(<< row_number(i),
                      payload_get(product, COL_SKU, Str(<<>>)),
                      payload_get(product, COL_NAME, Str(<<>>)),
                      payload_get(product, COL_META_BRAND,
                                  payload_get(product, COL_BRAND, Str(<<>>))),
                      payload_get(product, COL_CATEGORIES, Str(<<>>)),
                      payload_get(product, COL_PRICE, IntCell(0)),
                      payload_get(product, COL_DESCRIPTION, Str(<<>>)),
                      payload_get(product, "enhanced_description", Str(<<>>)),
                      title.val,
                      metadesc.val,
                      keywords.val,
                      images.val >>)

\* the loop that fills df_data from the i-th product on
RECURSIVE handler_rows(_, _, _, _)
handler_rows(prods, format_type, i, df_data) ==
    IF i > Len(prods) THEN Value(df_data)
    ELSE LET row == IF format_type = "woocommerce"
                    THEN handler_woocommerce_row(i, prods[i])
                    ELSE handler_enhanced_row(i, prods[i])
         IN  IF row.raised THEN Raised
             ELSE handler_rows(prods, format_type, i + 1, Append(df_data, row.val))

\* DataFrame.to_csv: a missing value (None, nan) is written as the empty
\* field, a str as it is, a number as its digits
to_csv_field(v) ==
    CASE v.kind \in {"None", "nan"} -> <<>>
      [] v.kind = "str" -> v.s
      [] v.kind = "num" -> py_str(v)

to_csv_row(row) == [c \in 1..Len(row) |-> to_csv_field(row[c])]

\* export_csv: the file of the FileResponse, or the failure that becomes the
\* HTTP 500; a DataFrame built from no dict has no column
export_csv(prods, format_type) ==
    LET df_data == handler_rows(prods, format_type, 1, <<>>) IN
    IF df_data.raised THEN ExportFailed
    ELSE Exported(<<"output/", format_type, "_products_", "{timestamp}", ".csv">>,
                  IF df_data.val = <<>> THEN <<>>
                  ELSE IF format_type = "woocommerce" THEN woocommerce_headers
                  ELSE enhanced_headers,
                  [i \in 1..Len(df_data.val) |-> to_csv_row(df_data.val[i])])

----------------------------------------------------------------------------
(* BeautyProductManager.enhance_with_ai and the generators it awaits *)

\* f"Enhanced description for {product.name}: {product.description}"
generate_enhanced_description(product) ==
    Lit("Enhanced description for ") \o product.name \o Lit(": ")
        \o product.description

\* the dict of generate_seo_content; the Persian parts of the templates are
\* kept as single elements, the commas of the keywords as characters
generate_seo_content(product) ==
    << [key |-> "meta_title",
        value |-> Str(product.brand \o <<" ">> \o product.name
                        \o Lit(" | [fa: best price] | [fa: guarantee of authenticity]"))],
       [key |-> "meta_description",
        value |-> Str(Lit("[fa: buy] ") \o product.brand \o <<" ">> \o product.name
                        \o Lit(" [fa: original with the best price. Guarantee, fast delivery.]"))],
       [key |-> "keywords",
        value |-> Str(product.brand \o <<",", " ">> \o product.name \o <<",", " ">>
                        \o product.category \o <<",", " ">> \o Lit("[fa: buy online]")
                        \o <<",", " ">> \o Lit("[fa: best price]"))],
       [key |-> "schema_markup",
        value |-> Dict(<<
            [key |-> "@context", value |-> Str(Lit("https://schema.org/"))],
            [key |-> "@type", value |-> Str(Lit("Product"))],
            [key |-> "name", value |-> Str(product.brand \o <<" ">> \o product.name)],
            [key |-> "brand",
             value |-> Dict(<< [key |-> "@type", value |-> Str(Lit("Brand"))],
                               [key |-> "name", value |-> Str(product.brand)] >>)],
            [key |-> "category", value |-> Str(product.category)],
            [key |-> "offers",
             value |-> Dict(<<
                 [key |-> "@type", value |-> Str(Lit("Offer"))],
                 [key |-> "price", value |-> Str(py_str(price_cell(product)))],
                 [key |-> "priceCurrency", value |-> Str(Lit("IRR"))],
                 [key |-> "availability",
                  value |-> Str(Lit("https://schema.org/InStock"))] >>)] >>)] >>

\* [f"https://example.com/images/{product.sku}.jpg"]
generate_or_scrape_images(product) ==
    << Lit("https://example.com/images/") \o product.sku \o Lit(".jpg") >>

\* the generators a Product is given to
Collaborators == {"description", "seo", "images"}

\* a write of a field of the Product at the position of the list
Write(position, field) == [kind |-> "write", product |-> position, field |-> field]

try_enhance_rewrites_description(product, position, conf, failing) ==
    IF failing = "description"
    THEN [product |-> product, writes |-> <<>>, raised |-> TRUE]
    ELSE [product |-> [product EXCEPT
                          !.description = generate_enhanced_description(product),
                          !.enhanced_description =
                              Str(generate_enhanced_description(product))],
          writes |-> <<Write(position, "enhanced_description")>>,
          raised |-> failing # "none"]

\* the body of the try for one product: the generators are awaited in turn
\* and each result is assigned; `failing` is the generator whose call raises
\* ("none": no call raises). Gives the Product as the except clause or the
\* end of the try finds it, and the fields assigned on the way
try_enhance(product, position, conf, failing) ==
    IF failing = "description"
    THEN [product |-> product, writes |-> <<>>, raised |-> TRUE]
    ELSE
    LET p1 == [product EXCEPT
                 !.enhanced_description = Str(generate_enhanced_description(product))]
        w1 == <<Write(position, "enhanced_description")>>
    IN  IF conf.enable_seo_generation /\ failing = "seo"
        THEN [product |-> p1, writes |-> w1, raised |-> TRUE]
        ELSE
        LET p2 == IF conf.enable_seo_generation
                  THEN [p1 EXCEPT !.seo_content = Dict(generate_seo_content(p1))]
                  ELSE p1
            w2 == IF conf.enable_seo_generation
                  THEN Append(w1, Write(position, "seo_content"))
                  ELSE w1
        IN  IF conf.enable_image_generation /\ failing = "images"
            THEN [product |-> p2, writes |-> w2, raised |-> TRUE]
            ELSE [product |-> IF conf.enable_image_generation
                              THEN [p2 EXCEPT
                                      !.image_urls = List(generate_or_scrape_images(p2))]
                              ELSE p2,
                  writes |-> IF conf.enable_image_generation
                             THEN Append(w2, Write(position, "image_urls"))
                             ELSE w2,
                  raised |-> FALSE]

\* products[i:i + batch_size], by the positions it holds
batch_positions(n, i, batch_size) ==
    {k \in 1..n : i < k /\ k <= i + batch_size}

RECURSIVE enhance_batch_stops_at_failure(_, _, _, _, _, _)
enhance_batch_stops_at_failure(prods, k, last, conf, failing, done) ==
    IF k > last THEN done
    ELSE LET r == try_enhance(prods[k], k, conf, failing[k]) IN
         IF r.raised
         THEN [enhanced_products |-> Append(done.enhanced_products, r.product),
               writes |-> done.writes \o r.writes]
         ELSE enhance_batch_stops_at_failure(prods, k + 1, last, conf, failing,
                  [enhanced_products |-> Append(done.enhanced_products, r.product),
                   writes |-> done.writes \o r.writes])

\* the inner loop over a batch from position k on: the product is appended to
\* enhanced_products at the end of the try and in the except clause alike
RECURSIVE enhance_batch(_, _, _, _, _, _)
enhance_batch(prods, k, last, conf, failing, done) ==
    IF k > last THEN done
    ELSE LET r == try_enhance(prods[k], k, conf, failing[k]) IN
         enhance_batch(prods, k + 1, last, conf, failing,
                       [enhanced_products |-> Append(done.enhanced_products, r.product),
                        writes |-> done.writes \o r.writes])

\* the outer loop `for i in range(0, len(products), batch_size)` from offset i
RECURSIVE enhance_batches(_, _, _, _, _)
enhance_batches(prods, i, conf, failing, done) ==
    IF i >= Len(prods) THEN done
    ELSE LET batch == batch_positions(Len(prods), i, conf.max_products_per_batch)
             last == CHOOSE k \in batch : \A j \in batch : j <= k
         IN  enhance_batches(prods, i + conf.max_products_per_batch, conf, failing,
                             enhance_batch(prods, i + 1, last, conf, failing, done))

\* enhance_with_ai on a list of Products: the list it returns and stores in
\* self.processed_products, and the fields it assigned, in order
enhance_with_ai(prods, conf, failing) ==
    enhance_batches(prods, 0, conf, failing, [enhanced_products |-> <<>>, writes |-> <<>>])

----------------------------------------------------------------------------
(* Specification of the flat-table exporters: a list of Products arrives    *)
(* for export_to_csv, or a payload of product dicts for /export-csv, with   *)
(* the format to write; the exporter runs on it.                            *)

MaxExport == 2     \* most products in a request to an exporter

\* a Product as load_csv builds it, told apart by id and sku
LoadedProduct(id, sku) ==
    [ProductOf(NameZed, NameSkin) EXCEPT
        !.id = id, !.sku = sku, !.price = Float(10), !.description = <<"d">>]

\* the Products an exporter is given: each enrichment field unset or as the
\* generators set it
ExportProducts ==
    UNION {
        {[p EXCEPT !.enhanced_description = e, !.seo_content = s, !.image_urls = u] :
            e \in {None, Str(generate_enhanced_description(p))},
            s \in {None, Dict(generate_seo_content(p))},
            u \in {None, List(generate_or_scrape_images(p))}} :
        p \in {LoadedProduct(<<>>, <<"s">>), LoadedProduct(<<"9">>, <<"t">>)}}

\* the dicts of a payload: each key may be missing, and an enrichment value
\* may be null
ExportPayloadProducts ==
    DictsOver([k \in {COL_DESCRIPTION, "enhanced_description", "seo_content",
                      "scraped_images"} |->
                 CASE k = COL_DESCRIPTION -> {Str(<<"d">>)}
                   [] k = "enhanced_description" -> {None, Str(<<"E">>)}
                   [] k = "seo_content" ->
                         {None, Dict(generate_seo_content(LoadedProduct(<<>>, <<"s">>)))}
                   [] k = "scraped_images" -> {List(<< <<"u">> >>)}])

ExportFormats == {"woocommerce", "enhanced"}

ExportArrived(target, ps, format) ==
    [op |-> "idle", target |-> target, arg |-> ps, format |-> format]

ExportRequests ==
    {ExportArrived("export_to_csv", ps, f) :
        ps \in SeqsUpTo(ExportProducts, MaxExport), f \in ExportFormats}
    \cup {ExportArrived("export_csv", ps, f) :
            ps \in SeqsUpTo(ExportPayloadProducts, MaxExport), f \in ExportFormats}

InitExport ==
    /\ products = <<>>
    /\ processed_products = <<>>
    /\ hashseed = 0
    /\ request \in ExportRequests
    /\ response = None
    /\ previous = None
    /\ config = default_config
    /\ effects = <<>>

\* a Product of the list is read by an exporter
Handover(position) == [kind |-> "export", product |-> position, field |-> "-"]

ExportToCsv ==
    /\ request.op = "idle"
    /\ request.target = "export_to_csv"
    /\ request' = [request EXCEPT !.op = "export_to_csv"]
    /\ response' = export_to_csv(request.arg, request.format)
    /\ effects' = effects \o [k \in 1..Len(request.arg) |-> Handover(k)]
    /\ UNCHANGED <<products, processed_products, hashseed, previous, config>>

ExportCsv ==
    /\ request.op = "idle"
    /\ request.target = "export_csv"
    /\ request' = [request EXCEPT !.op = "export_csv"]
    /\ response' = export_csv(request.arg, request.format)
    /\ UNCHANGED <<products, processed_products, hashseed, previous, config, effects>>

NextExport == ExportToCsv \/ ExportCsv

SpecExport == InitExport /\ [][NextExport]_vars

----------------------------------------------------------------------------
(* Properties of the flat-table exporters *)

ExportDone == request.op \in {"export_to_csv", "export_csv"}

\* the field of the k-th row of the exported file in the named column
Field(k, column) ==
    response.rows[k][CHOOSE c \in 1..Len(response.headers) : response.headers[c] = column]

\* the text a key of a payload dict holds, empty when missing or null
TextOf(product, key) ==
    IF key \in DOMAIN product /\ product[key].kind = "str" THEN product[key].s
    ELSE <<>>

\* the sku and the original description of the k-th product of the request
SkuOf(k) ==
    IF request.target = "export_to_csv" THEN request.arg[k].sku
    ELSE TextOf(request.arg[k], COL_SKU)

OriginalOf(k) ==
    IF request.target = "export_to_csv" THEN request.arg[k].description
    ELSE TextOf(request.arg[k], COL_DESCRIPTION)

\* C14: in both schemas the exporter writes one row per product of its
\* input, the k-th row for the k-th product, and the ID of the k-th row is k
\* whatever the id of the product is.
C14_OneRowPerProductNumbered ==
    ExportDone =>
        /\ response.ok
        /\ Len(response.rows) = Len(request.arg)
        /\ \A k \in 1..Len(request.arg) :
              /\ Field(k, "ID") = IntToStr(k)
              /\ Field(k, COL_SKU) = SkuOf(k)
              /\ Field(k, IF request.format = "woocommerce" THEN "Short description"
                          ELSE "Original Description") = OriginalOf(k)

\* no enrichment is attached to the k-th product of the request: the field
\* is None on a Product, the key is missing or null in a dict
Unenriched(k) ==
    IF request.target = "export_to_csv"
    THEN /\ request.arg[k].enhanced_description = None
         /\ request.arg[k].seo_content = None
         /\ request.arg[k].image_urls = None
    ELSE \A key \in {"enhanced_description", "seo_content", "scraped_images"} :
            key \in DOMAIN request.arg[k] => request.arg[k][key] = None

SeoColumns ==
    IF request.format = "woocommerce"
    THEN {"Meta: _yoast_wpseo_title", "Meta: _yoast_wpseo_metadesc",
          "Meta: _yoast_wpseo_focuskw"}
    ELSE {"SEO Title", "SEO Description", "Keywords"}

\* C15: exporting products without enrichment raises in neither schema: the
\* commerce row's Description is the original description, and the Images
\* column and the SEO columns are empty.
C15_UnenrichedExportsWithDefaults ==
    (ExportDone /\ \A k \in 1..Len(request.arg) : Unenriched(k)) =>
        /\ response.ok
        /\ \A k \in 1..Len(response.rows) :
              /\ request.format = "woocommerce" => Field(k, "Description") = OriginalOf(k)
              /\ Field(k, IF request.format = "woocommerce" THEN "Images"
                          ELSE "Image URLs") = <<>>
              /\ \A column \in SeoColumns : Field(k, column) = <<>>

\* the enhanced description of the k-th product of the request when it has
\* one, else its original description
EnhancedOrOriginalOf(k) ==
    LET p == request.arg[k]
        enhanced == IF request.target = "export_to_csv" THEN p.enhanced_description
                    ELSE payload_get(p, "enhanced_description", None)
    IN  IF enhanced.kind = "str" THEN enhanced.s ELSE OriginalOf(k)

\* C16: in the commerce schema the Description of a row is the product's
\* enhanced description when it has one and its original description
\* otherwise, in export_to_csv and in the /export-csv handler alike.
C16_DescriptionEnhancedElseOriginal ==
    (ExportDone /\ request.format = "woocommerce" /\ response.ok) =>
        \A k \in 1..Len(response.rows) : Field(k, "Description") = EnhancedOrOriginalOf(k)

----------------------------------------------------------------------------
(* main.enhance_products: the /enhance-products handler *)

\* enhance_with_ai on the dicts of a payload: generate_enhanced_description
\* reads product.name, which a dict has not (AttributeError), and the except
\* clause reads product.name for its log line, so that the exception leaves
\* the loop; an empty list is returned as it is
enhance_with_ai_dicts(prods) == IF prods = <<>> THEN Value(<<>>) ELSE Raised

\* the handler's answer: the success dict, or the HTTPException (500)
enhance_products(payload) ==
    LET enhanced == enhance_with_ai_dicts(payload) IN
    IF enhanced.raised
    THEN [success |-> FALSE, status_code |-> 500, enhanced_products |-> <<>>]
    ELSE [success |-> TRUE, status_code |-> 200, enhanced_products |-> enhanced.val]

----------------------------------------------------------------------------
(* Specification of enrichment: a manager holds the Products load_csv       *)
(* stored; enhance_with_ai and export_to_csv are called on that list, and   *)
(* /enhance-products requests are served by the same manager. A call runs   *)
(* without yielding: none of the awaited generators suspends.               *)

MaxEnrich == 2     \* most Products the manager holds

\* the k-th Product of the loaded file
NthProduct(k) == LoadedProduct(IntToStr(k), <<"s">> \o IntToStr(k))

LoadedLists == {[k \in 1..n |-> NthProduct(k)] : n \in 0..MaxEnrich}

\* the configuration after config.json has been merged into the defaults
Configs ==
    {[max_products_per_batch |-> b,
      enable_image_generation |-> i,
      enable_seo_generation |-> s] : b \in {1, 10}, i \in BOOLEAN, s \in BOOLEAN}

\* the payloads of /enhance-products
EnhancePayloads == SeqsUpTo({[Name |-> Str(<<"p">>)]}, MaxEnrich)

InitEnrich ==
    /\ products \in LoadedLists
    /\ processed_products = <<>>
    /\ hashseed = 0
    /\ request = [op |-> "idle", again |-> FALSE, arg |-> <<>>, failing |-> <<>>,
                  format |-> "-"]
    /\ response = None
    /\ previous = None
    /\ config \in Configs
    /\ effects = <<>>

\* the call now served; `again` tells that it is not the first of the run
Served(op, arg, failing, format) ==
    [op |-> op, again |-> request.op # "idle", arg |-> arg, failing |-> failing,
     format |-> format]

\* enhance_with_ai(self.products): the Products are assigned to in place, so
\* the stored list shows the new field values
EnhanceWithAi ==
    /\ ~request.again
    /\ \E failing \in [1..Len(products) -> Collaborators \cup {"none"}] :
          LET r == enhance_with_ai(products, config, failing) IN
          /\ request' = Served("enhance_with_ai", products, failing, "-")
          /\ response' = r.enhanced_products
          /\ products' = r.enhanced_products
          /\ processed_products' = r.enhanced_products
          /\ effects' = effects \o r.writes
    /\ previous' = response
    /\ UNCHANGED <<hashseed, config>>

\* export_to_csv(self.products, format)
ExportStored ==
    /\ ~request.again
    /\ \E format \in ExportFormats :
          /\ request' = Served("export_to_csv", products, <<>>, format)
          /\ response' = export_to_csv(products, format)
    /\ effects' = effects \o [k \in 1..Len(products) |-> Handover(k)]
    /\ previous' = response
    /\ UNCHANGED <<products, processed_products, hashseed, config>>

\* POST /enhance-products: enhance_with_ai of the shared manager on the
\* payload; self.processed_products is assigned when it returns
EnhanceProducts ==
    /\ ~request.again
    /\ \E payload \in EnhancePayloads :
          LET answer == enhance_products(payload) IN
          /\ request' = Served("enhance_products", payload, <<>>, "-")
          /\ response' = answer
          /\ processed_products' =
                IF answer.success THEN answer.enhanced_products ELSE processed_products
    /\ previous' = response
    /\ UNCHANGED <<products, hashseed, config, effects>>

NextEnrich == EnhanceWithAi \/ ExportStored \/ EnhanceProducts

SpecEnrich == InitEnrich /\ [][NextEnrich]_vars

----------------------------------------------------------------------------
(* Properties of enrichment *)

Enhanced == request.op = "enhance_with_ai"

CoreFields ==
    {"id", "name", "brand", "category", "price", "description", "sku",
     "skin_types", "ingredients", "usage"}

\* the optional field a generator's result is assigned to
FieldOf(collaborator) ==
    CASE collaborator = "description" -> "enhanced_description"
      [] collaborator = "seo" -> "seo_content"
      [] collaborator = "images" -> "image_urls"

\* the configuration has the generator called
Enabled(collaborator) ==
    CASE collaborator = "description" -> TRUE
      [] collaborator = "seo" -> config.enable_seo_generation
      [] collaborator = "images" -> config.enable_image_generation

\* the call of a generator raised for the k-th product of the served call
FailedFor(k) ==
    /\ request.failing[k] # "none"
    /\ Enabled(request.failing[k])

\* C17: enhance_with_ai returns, and stores, a list as long as the one it
\* was given, holding the same products in the same order, whichever
\* generator calls raise; a product for which no call raises is enhanced
\* also when calls raised for products before it.
C17_EnrichmentNeverAbortsBatch ==
    Enhanced =>
        /\ Len(response) = Len(request.arg)
        /\ processed_products = response
        /\ \A k \in 1..Len(request.arg) :
              /\ response[k].id = request.arg[k].id
              /\ response[k].sku = request.arg[k].sku
              /\ ~FailedFor(k) =>
                    \A c \in Collaborators : Enabled(c) => response[k][FieldOf(c)] # None

\* description generation raises for the first product, nothing raises for
\* the second: two products are returned and the second is enhanced
C17_Witness ==
    /\ Enhanced
    /\ ~request.again
    /\ Len(response) = 2
    /\ request.failing = <<"description", "none">>
    /\ response[1].enhanced_description = None
    /\ response[2].enhanced_description # None

\* C18: when the call of one generator raises for a product that had no
\* enrichment, the field of that generator is None afterwards and the fields
\* of the other generators that are called by the configuration are attached.
C18_OnlyFailedFieldUnset ==
    Enhanced =>
        \A k \in 1..Len(request.arg) :
            (FailedFor(k) /\ \A c \in Collaborators : request.arg[k][FieldOf(c)] = None) =>
                /\ response[k][FieldOf(request.failing[k])] = None
                /\ \A c \in Collaborators \ {request.failing[k]} :
                      Enabled(c) => response[k][FieldOf(c)] # None

\* C19: each product has after enhance_with_ai the values of id, name,
\* brand, category, price, description, sku, skin_types, ingredients and
\* usage it had before, whether a generator call raised for it or not.
C19_EnrichmentKeepsCoreFields ==
    Enhanced =>
        /\ Len(products) = Len(request.arg)
        /\ \A k \in 1..Len(request.arg) :
              \A f \in CoreFields :
                  /\ response[k][f] = request.arg[k][f]
                  /\ products[k][f] = request.arg[k][f]

\* the first product is enhanced in full, image generation raises for the
\* second after its description and SEO content were attached
C19_Witness ==
    /\ Enhanced
    /\ request.failing = <<"none", "images">>
    /\ config.enable_seo_generation
    /\ config.enable_image_generation
    /\ request.arg[1].enhanced_description = None
    /\ response[1].image_urls # None
    /\ response[2].seo_content # None
    /\ response[2].image_urls = None
    /\ response[2].description = <<"d">>

\* C20: over a run, each enrichment field of each Product is written at
\* most once, and no enrichment field of a Product is written after the
\* Product was handed to an exporter.
C20_EnrichmentWrittenOnceBeforeExport ==
    /\ \A i, j \in 1..Len(effects) :
          (effects[i].kind = "write" /\ effects[i] = effects[j]) => i = j
    /\ \A i, j \in 1..Len(effects) :
          (i < j /\ effects[i].kind = "export" /\ effects[j].kind = "write")
             => effects[i].product # effects[j].product

----------------------------------------------------------------------------
(* BeautyProductManager.scrape_competitor_data and run_full_pipeline *)

\* the 'competitor_urls' of the default configuration
competitor_urls ==
    << Lit("https://asalbanooshop.com"), Lit("https://floracosmeticshop.com") >>

\* what a GET of a competitor page can come to: status 200, another status,
\* or an exception (which the loop catches)
FetchOutcomes == {"200", "404", "raised"}

\* the entry of competitor_data for one url
scrape_entry(outcome) ==
    CASE outcome = "200" -> [status |-> "success", status_code |-> "-", error |-> "-"]
      [] outcome = "404" -> [status |-> "error", status_code |-> "404", error |-> "-"]
      [] outcome = "raised" -> [status |-> "error", status_code |-> "-", error |-> "str(e)"]

\* the loop over the urls from the k-th on
RECURSIVE scrape_loop(_, _, _, _)
scrape_loop(urls, net, k, competitor_data) ==
    IF k > Len(urls) THEN competitor_data
    ELSE scrape_loop(urls, net, k + 1,
                     dict_set(competitor_data, urls[k], scrape_entry(net[k])))

scrape_competitor_data(urls, net) == scrape_loop(urls, net, 1, <<>>)

\* the outcomes of the fetches of one run: all pages answer 200, or one of
\* them answers another status or raises
FetchRuns(urls) ==
    {net \in [1..Len(urls) -> FetchOutcomes] :
        Cardinality({k \in 1..Len(urls) : net[k] # "200"}) <= 1
        /\ (\A k \in 1..Len(urls) : net[k] = "404" => k = Len(urls))
        /\ (\A k \in 1..Len(urls) : net[k] = "raised" => k = 1)}

\* what a run leaves behind, in the order it happens: a call of a method of
\* the manager, a file written by an exporter, a page fetched
Call(name) == [kind |-> "call", product |-> 0, field |-> name]

FileWritten(file) == [kind |-> "file", product |-> 0, field |-> "-", file |-> file]

Fetch(k) == [kind |-> "fetch", product |-> k, field |-> "-"]

\* the trace of one export_to_csv call
export_trace(prods, file) ==
    <<Call("export_to_csv")>> \o [k \in 1..Len(prods) |-> Handover(k)]
        \o <<FileWritten(file)>>

\* the trace of one scrape_competitor_data call
scrape_trace(urls) ==
    <<Call("scrape_competitor_data")>> \o [k \in 1..Len(urls) |-> Fetch(k)]

pipeline_exports_first(loaded, enhanced, seed, net) ==
    LET enhanced_products == enhanced.enhanced_products
        woo_csv == export_to_csv(loaded, "woocommerce")
        enhanced_csv == export_to_csv(loaded, "enhanced")
        brand_pages == generate_brand_pages(enhanced_products, seed)
        competitor_data == scrape_competitor_data(competitor_urls, net)
    IN  [ret |-> [status |-> "success",
                  products_processed |-> Len(enhanced_products),
                  brands_generated |-> Len(brand_pages),
                  files_generated |-> <<woo_csv.filename, enhanced_csv.filename>>,
                  competitor_data |-> competitor_data],
         products |-> enhanced_products,
         processed_products |-> enhanced_products,
         trace |-> <<Call("load_csv")>>
                   \o export_trace(loaded, woo_csv)
                   \o export_trace(loaded, enhanced_csv)
                   \o <<Call("enhance_with_ai")>> \o enhanced.writes
                   \o <<Call("generate_brand_pages")>>
                   \o scrape_trace(competitor_urls)]

run_full_pipeline_exports_first(file, self, conf, failing, seed, net) ==
    LET loaded == load_csv(file, self.products) IN
    IF loaded.ret = <<>>
    THEN [ret |-> [error |-> "No products loaded"],
          products |-> loaded.products,
          processed_products |-> self.processed_products,
          trace |-> <<Call("load_csv")>>]
    ELSE CHOOSE result \in
            {pipeline_exports_first(ret, enhanced, seed, net) :
                ret \in {loaded.ret},
                enhanced \in {enhance_with_ai(loaded.ret, conf, failing)}} : TRUE

\* run_full_pipeline from the return of enhance_with_ai on: the brand
\* pages, the two exports and the scrape, the result dict, what the manager
\* holds afterwards and the trace of the run. The Products of the loaded
\* list were assigned to in place, so self.products shows the enriched
\* Products; the time stamp of the result is left out
pipeline_after_enhance(enhanced, seed, net) ==
    LET enhanced_products == enhanced.enhanced_products
        brand_pages == generate_brand_pages(enhanced_products, seed)
        woo_csv == export_to_csv(enhanced_products, "woocommerce")
        enhanced_csv == export_to_csv(enhanced_products, "enhanced")
        competitor_data == scrape_competitor_data(competitor_urls, net)
    IN  [ret |-> [status |-> "success",
                  products_processed |-> Len(enhanced_products),
                  brands_generated |-> Len(brand_pages),
                  files_generated |-> <<woo_csv.filename, enhanced_csv.filename>>,
                  competitor_data |-> competitor_data],
         products |-> enhanced_products,
         processed_products |-> enhanced_products,
         trace |-> <<Call("load_csv")>>
                   \o <<Call("enhance_with_ai")>> \o enhanced.writes
                   \o <<Call("generate_brand_pages")>>
                   \o export_trace(enhanced_products, woo_csv)
                   \o export_trace(enhanced_products, enhanced_csv)
                   \o scrape_trace(competitor_urls)]

\* run_full_pipeline: load_csv, the return of the error dict when it gave
\* no product, otherwise enhance_with_ai on the loaded list and the stages
\* after it
run_full_pipeline(file, self, conf, failing, seed, net) ==
    LET loaded == load_csv(file, self.products) IN
    IF loaded.ret = <<>>
    THEN [ret |-> [error |-> "No products loaded"],
          products |-> loaded.products,
          processed_products |-> self.processed_products,
          trace |-> <<Call("load_csv")>>]
    ELSE CHOOSE result \in
            {pipeline_after_enhance(enhanced, seed, net) :
                enhanced \in {enhance_with_ai(loaded.ret, conf, failing)}} : TRUE

----------------------------------------------------------------------------
(* Specification of the manager's methods: a manager holds the Products an  *)
(* earlier load_csv stored, unenriched or enriched by enhance_with_ai; one  *)
(* of load_csv, export_to_csv, generate_brand_pages and run_full_pipeline   *)
(* is called on it.                                                         *)

\* the files given to the manager: unreadable, or a table of names with or
\* without the price column
ManagerFiles ==
    {UnreadableFile}
    \cup UNION {
        UNION {
            {[readable |-> TRUE, columns |-> {COL_NAME} \cup cs, rows |-> rs] :
                rs \in [1..n -> RowsOver({COL_NAME} \cup cs)]} :
            n \in 0..MaxRows} :
        cs \in SUBSET {COL_PRICE}}

\* the lists the manager can hold: as loaded, or after enhance_with_ai ran
\* on them without a failure
StoredLists ==
    LoadedLists
    \cup {enhance_with_ai(l, default_config, [k \in 1..Len(l) |-> "none"]).enhanced_products :
             l \in LoadedLists}

\* the order list() gives the categories of the stored and the loaded
\* Products (each brand has one category here)
ManagerSeed == << <<>>, NameSkin >>

\* the generators' failures in one pipeline run: none, or one generator
\* raises for one of the n Products
SingleFailures(n) ==
    {failing \in [1..n -> Collaborators \cup {"none"}] :
        Cardinality({k \in 1..n : failing[k] # "none"}) <= 1}

InitManager ==
    /\ products \in StoredLists
    /\ processed_products = <<>>
    /\ hashseed = ManagerSeed
    /\ request = [op |-> "idle", arg |-> <<>>, stored |-> <<>>, failing |-> <<>>,
                  format |-> "-"]
    /\ response = None
    /\ previous = None
    /\ config = default_config
    /\ effects = <<>>

\* the call served: the operation, its argument, the list the manager held
\* when the call arrived, and the choices of the environment
Called(op, arg, failing, format) ==
    [op |-> op, arg |-> arg, stored |-> products, failing |-> failing,
     format |-> format]

ManagerLoadCsv ==
    /\ request.op = "idle"
    /\ \E file \in ManagerFiles :
          LET r == load_csv(file, products) IN
          /\ request' = Called("load_csv", file, <<>>, "-")
          /\ response' = r.ret
          /\ products' = r.products
    /\ effects' = Append(effects, Call("load_csv"))
    /\ UNCHANGED <<processed_products, hashseed, previous, config>>

ManagerExportToCsvDrainsList ==
    /\ request.op = "idle"
    /\ \E format \in ExportFormats :
          /\ request' = Called("export_to_csv", products, <<>>, format)
          /\ response' = export_to_csv(products, format)
          /\ effects' = effects \o export_trace(products, export_to_csv(products, format))
    /\ products' = <<>>
    /\ UNCHANGED <<processed_products, hashseed, previous, config>>

\* export_to_csv(self.products, format): the list and its Products are read
ManagerExportToCsv ==
    /\ request.op = "idle"
    /\ \E format \in ExportFormats :
          /\ request' = Called("export_to_csv", products, <<>>, format)
          /\ response' = export_to_csv(products, format)
          /\ effects' = effects \o export_trace(products, export_to_csv(products, format))
    /\ UNCHANGED <<products, processed_products, hashseed, previous, config>>

\* generate_brand_pages(self.products): the Products are appended to the
\* lists of a new dict
ManagerGenerateBrandPages ==
    /\ request.op = "idle"
    /\ request' = Called("generate_brand_pages", products, <<>>, "-")
    /\ response' = generate_brand_pages(products, hashseed)
    /\ effects' = Append(effects, Call("generate_brand_pages"))
    /\ UNCHANGED <<products, processed_products, hashseed, previous, config>>

RunFullPipeline ==
    /\ request.op = "idle"
    /\ \E file \in ManagerFiles :
          \E failing \in SingleFailures(Len(load_csv(file, products).ret)),
             net \in FetchRuns(competitor_urls) :
             \E r \in {run_full_pipeline(
                         file, [products |-> products,
                                processed_products |-> processed_products],
                         config, failing, hashseed, net)} :
                 /\ request' = Called("run_full_pipeline", file, failing, "-")
                 /\ response' = r.ret
                 /\ products' = r.products
                 /\ processed_products' = r.processed_products
                 /\ effects' = effects \o r.trace
    /\ UNCHANGED <<hashseed, previous, config>>

NextManager ==
    ManagerLoadCsv \/ ManagerExportToCsv \/ ManagerGenerateBrandPages \/ RunFullPipeline

SpecManager == InitManager /\ [][NextManager]_vars

----------------------------------------------------------------------------
(* Properties of the manager's methods *)

\* C22: export_to_csv, in either format, and generate_brand_pages leave the
\* manager's list as it was when the call arrived: the same Products in the
\* same order with every field unchanged, none removed; the brand pages list
\* each of these Products once, as it is.
C22_ExportAndAggregationArePure ==
    /\ request.op \in {"export_to_csv", "generate_brand_pages"} =>
          /\ request.arg = request.stored
          /\ products = request.stored
          /\ processed_products = <<>>
    /\ request.op = "export_to_csv" =>
          /\ response.ok
          /\ Len(response.rows) = Len(products)
    /\ request.op = "generate_brand_pages" =>
          /\ SumLengths(response) = Len(products)
          /\ \A i \in 1..Len(response) :
                response[i].value.products
                   = SelectSeq(products, LAMBDA p : p.brand = response[i].key)

\* two enriched Products were exported in the enhanced format and are still
\* held, enriched, in their order
C22_Witness ==
    /\ request.op = "export_to_csv"
    /\ request.format = "enhanced"
    /\ Len(response.rows) = 2
    /\ Len(products) = 2
    /\ products[1].id = <<"1">>
    /\ products[2].id = <<"2">>
    /\ products[1].enhanced_description # None
    /\ products[2].seo_content # None

Piped == request.op = "run_full_pipeline"

\* the names of the methods called, in the order of the calls
CallsMade ==
    LET calls == SelectSeq(effects, LAMBDA e : e.kind = "call")
    IN  [i \in 1..Len(calls) |-> calls[i].field]

\* the files written, in the order they were written
FilesWritten ==
    LET files == SelectSeq(effects, LAMBDA e : e.kind = "file")
    IN  [i \in 1..Len(files) |-> files[i].file]

\* the number of calls made up to the i-th entry of the trace
StageAt(i) == Cardinality({j \in 1..i : effects[j].kind = "call"})

\* C24: run_full_pipeline calls load_csv, enhance_with_ai,
\* generate_brand_pages, export_to_csv for woocommerce, export_to_csv for
\* enhanced and scrape_competitor_data, in this order: every enrichment
\* field is assigned before the aggregation, both files are written after
\* it from the enriched Products, and the pages are fetched last. When
\* load_csv returns no product the result is the error dict and nothing but
\* the load happened; otherwise products_processed is the number of loaded
\* products.
C24_PipelineStagesInOrder ==
    Piped =>
        LET loaded == load_csv(request.arg, request.stored) IN
        IF loaded.ret = <<>>
        THEN /\ response = [error |-> "No products loaded"]
             /\ effects = <<Call("load_csv")>>
             /\ products = loaded.products
             /\ processed_products = <<>>
        ELSE /\ CallsMade = <<"load_csv", "enhance_with_ai", "generate_brand_pages",
                              "export_to_csv", "export_to_csv",
                              "scrape_competitor_data">>
             /\ \A i \in 1..Len(effects) :
                   /\ effects[i].kind = "write" => StageAt(i) = 2
                   /\ effects[i].kind \in {"export", "file"} => StageAt(i) \in {4, 5}
                   /\ effects[i].kind = "fetch" => StageAt(i) = 6
             /\ FilesWritten = <<export_to_csv(products, "woocommerce"),
                                 export_to_csv(products, "enhanced")>>
             /\ Len(products) = Len(loaded.ret)
             /\ processed_products = products
             /\ response.status = "success"
             /\ response.products_processed = Len(loaded.ret)
             /\ response.files_generated
                   = <<FilesWritten[1].filename, FilesWritten[2].filename>>
             /\ Len(response.competitor_data) = Len(competitor_urls)

\* a file of two rows: the description generator raises for the first
\* Product, the second is enriched; both are exported and counted
C24_Witness ==
    /\ Piped
    /\ Len(request.arg.rows) = 2
    /\ request.failing = <<"description", "none">>
    /\ response.products_processed = 2
    /\ products[1].enhanced_description = None
    /\ products[2].enhanced_description # None
    /\ Len(FilesWritten) = 2
    /\ Len(FilesWritten[1].rows) = 2
    /\ effects[Len(effects)].kind = "fetch"

\* reading the file or building the Product of one of its rows raises
LoadFails(file) ==
    \/ ~file.readable
    \/ \E i \in 1..Len(file.rows) : row_product(file, i).raised

\* C25: after load_csv, self.products is the returned list, one Product per
\* row, when nothing raised; when reading the file or building a Product
\* raised, self.products is the list held before the call, whatever rows
\* were parsed before the failure, and the call returned the empty list.
C25_LoadReplacesOrKeepsStoredList ==
    request.op = "load_csv" =>
        IF LoadFails(request.arg)
        THEN /\ products = request.stored
             /\ response = <<>>
        ELSE /\ products = response
             /\ Len(response) = Len(request.arg.rows)
             /\ \A i \in 1..Len(response) : response[i] = row_product(request.arg, i).val

\* the manager holds two Products; a file of two rows is loaded whose first
\* row parses and whose second has the price '$5': the two Products stay
C25_Witness ==
    /\ request.op = "load_csv"
    /\ Len(request.stored) = 2
    /\ Len(request.arg.rows) = 2
    /\ ~row_product(request.arg, 1).raised
    /\ row_product(request.arg, 2).raised
    /\ products = request.stored
    /\ products[1].sku = <<"s", "1">>
    /\ response = <<>>

----------------------------------------------------------------------------
(* agents.AgentZeroManager: execute_task and execute_workflow *)

\* Response(message, break_loop=False, data=None)
Response(message, break_loop, data) ==
    [message |-> message, break_loop |-> break_loop, data |-> data]

\* the keys of self.agents
registered_agents ==
    {"researcher", "developer", "hacker", "csv_processor", "image_downloader",
     "seo_generator"}

\* the agents whose execute catches every exception and returns a Response
\* with break_loop=False
guarded_agents == {"researcher", "developer", "hacker"}

\* what agent.execute(**task.input_data) can do: return a Response that
\* does not ask for the loop to stop, return one that does, or raise
AgentOutcomes == {"returns", "breaks", "raises"}

\* the outcomes possible for a task of the agent type; no agent runs for a
\* type that is not registered
OutcomesOf(agent_type) ==
    IF agent_type \notin registered_agents THEN {"none"}
    ELSE IF agent_type \in guarded_agents THEN {"returns"}
    ELSE AgentOutcomes

\* the Response an agent returns
agent_response(task, outcome) ==
    Response(Lit("agent message"), outcome = "breaks", [kind |-> "data"])

execute_task_propagates(task, outcome) ==
    IF task.agent_type \notin registered_agents
    THEN Value(Response(<<"Unknown agent type: ", task.agent_type>>, FALSE, None))
    ELSE IF outcome = "raises"
         THEN Raised
         ELSE Value(agent_response(task, outcome))

\* execute_task: the Response returned, or the exception that leaves it
execute_task(task, outcome) ==
    IF task.agent_type \notin registered_agents
    THEN Value(Response(<<"Unknown agent type: ", task.agent_type>>, FALSE, None))
    ELSE IF outcome = "raises"
         THEN Value(Response(<<"Error executing task: ", "str(e)">>, FALSE, None))
         ELSE Value(agent_response(task, outcome))

\* execute_task was called for the k-th task of the workflow
Dispatched(k) == [kind |-> "task", product |-> k, field |-> "-"]

RECURSIVE workflow_loop_drops_breaking_result(_, _, _, _)
workflow_loop_drops_breaking_result(workflow, outcomes, k, done) ==
    IF k > Len(workflow) THEN done
    ELSE LET result == execute_task(workflow[k], outcomes[k])
             trace == Append(done.trace, Dispatched(k))
         IN  IF result.raised THEN [results |-> Raised, trace |-> trace]
             ELSE IF result.val.break_loop
                  THEN [results |-> done.results, trace |-> trace]
                  ELSE workflow_loop_drops_breaking_result(
                          workflow, outcomes, k + 1,
                          [results |-> Value(Append(done.results.val, result.val)),
                           trace |-> trace])

\* the loop of execute_workflow from the k-th task on: the result is
\* appended, then break_loop is tested
RECURSIVE workflow_loop(_, _, _, _)
workflow_loop(workflow, outcomes, k, done) ==
    IF k > Len(workflow) THEN done
    ELSE LET result == execute_task(workflow[k], outcomes[k])
             trace == Append(done.trace, Dispatched(k))
         IN  IF result.raised THEN [results |-> Raised, trace |-> trace]
             ELSE LET results == Value(Append(done.results.val, result.val)) IN
                  IF result.val.break_loop
                  THEN [results |-> results, trace |-> trace]
                  ELSE workflow_loop(workflow, outcomes, k + 1,
                                     [results |-> results, trace |-> trace])

\* execute_workflow: the list returned (or the exception), and the calls of
\* execute_task in their order
execute_workflow(workflow, outcomes) ==
    workflow_loop(workflow, outcomes, 1, [results |-> Value(<<>>), trace |-> <<>>])

----------------------------------------------------------------------------
(* Specification of the agent manager: a workflow arrives; its first task   *)
(* is given to execute_task or the whole workflow to execute_workflow, and  *)
(* each agent does one of the things an agent can do.                       *)

MaxTasks == 3      \* most tasks of a workflow

\* agent types of the tasks: two registered ones and one that is not
TaskAgentTypes == {"developer", "csv_processor", "scraper"}

\* AgentTask(task_id, agent_type, ...): the tasks of a workflow are told
\* apart by their task_id
Workflows ==
    UNION {{[k \in 1..n |-> [task_id |-> k, agent_type |-> types[k]]] :
               types \in [1..n -> TaskAgentTypes]} :
           n \in 0..MaxTasks}

\* the outcomes of the agents' runs for the tasks of a workflow
OutcomesFor(workflow) ==
    {outcomes \in [1..Len(workflow) -> AgentOutcomes \cup {"none"}] :
        \A k \in 1..Len(workflow) : outcomes[k] \in OutcomesOf(workflow[k].agent_type)}

InitAgents ==
    /\ products = <<>>
    /\ processed_products = <<>>
    /\ hashseed = 0
    /\ request \in {[op |-> "idle", arg |-> w, outcomes |-> <<>>] : w \in Workflows}
    /\ response = None
    /\ previous = None
    /\ config = default_config
    /\ effects = <<>>

ExecuteTask ==
    /\ request.op = "idle"
    /\ request.arg # <<>>
    /\ \E outcome \in OutcomesOf(request.arg[1].agent_type) :
          /\ request' = [request EXCEPT !.op = "execute_task", !.outcomes = <<outcome>>]
          /\ response' = execute_task(request.arg[1], outcome)
    /\ effects' = Append(effects, Dispatched(1))
    /\ UNCHANGED <<products, processed_products, hashseed, previous, config>>

ExecuteWorkflow ==
    /\ request.op = "idle"
    /\ \E outcomes \in OutcomesFor(request.arg) :
          LET r == execute_workflow(request.arg, outcomes) IN
          /\ request' = [request EXCEPT !.op = "execute_workflow", !.outcomes = outcomes]
          /\ response' = r.results
          /\ effects' = effects \o r.trace
    /\ UNCHANGED <<products, processed_products, hashseed, previous, config>>

NextAgents == ExecuteTask \/ ExecuteWorkflow

SpecAgents == InitAgents /\ [][NextAgents]_vars

----------------------------------------------------------------------------
(* Properties of the agent manager *)

WorkflowDone == request.op = "execute_workflow"

\* the positions of the tasks execute_task was called for, in call order
DispatchOrder == [i \in 1..Len(effects) |-> effects[i].product]

\* C26: execute_workflow returns normally, having called execute_task for
\* the tasks 1, 2, ... of the workflow in this order, with one Response per
\* call in the same order; only the last Response can have break_loop set,
\* no task after it was executed, and the result is shorter than the
\* workflow only when its last Response has break_loop set.
C26_WorkflowRunsInOrderUntilBreak ==
    WorkflowDone =>
        /\ ~response.raised
        /\ Len(response.val) <= Len(request.arg)
        /\ DispatchOrder = [i \in 1..Len(response.val) |-> i]
        /\ \A i \in 1..Len(response.val) :
              /\ response.val[i] = execute_task(request.arg[i], request.outcomes[i]).val
              /\ response.val[i].break_loop => i = Len(response.val)
        /\ Len(response.val) < Len(request.arg) =>
              /\ response.val # <<>>
              /\ response.val[Len(response.val)].break_loop
        /\ (\A i \in 1..Len(response.val) : ~response.val[i].break_loop) =>
              Len(response.val) = Len(request.arg)

\* three tasks, the agent of the second returns break_loop=True: two
\* Responses, the third task is not executed
C26_Witness ==
    /\ WorkflowDone
    /\ Len(request.arg) = 3
    /\ request.outcomes[1] = "returns"
    /\ request.outcomes[2] = "breaks"
    /\ Len(response.val) = 2
    /\ ~response.val[1].break_loop
    /\ response.val[2].break_loop
    /\ Len(effects) = 2

\* the task fails: its agent type is not registered, or its agent raises
TaskFails(k) ==
    \/ request.arg[k].agent_type \notin registered_agents
    \/ request.outcomes[k] = "raises"

\* C27: execute_task returns a Response whatever the task is; for a task of
\* an unregistered agent type and for a task whose agent raises, break_loop
\* is false and data is None; in a workflow the task after a failed task is
\* executed.
C27_ExecuteTaskNeverRaises ==
    /\ request.op = "execute_task" =>
          /\ ~response.raised
          /\ TaskFails(1) => (~response.val.break_loop /\ response.val.data = None)
    /\ WorkflowDone =>
          /\ ~response.raised
          /\ \A k \in 1..Len(response.val) :
                TaskFails(k) =>
                    /\ ~response.val[k].break_loop
                    /\ response.val[k].data = None
                    /\ k < Len(request.arg) => Len(response.val) > k

\* an unregistered type, then an agent that raises, then an agent that
\* returns: three Responses, the first two without data
C27_Witness ==
    /\ WorkflowDone
    /\ Len(request.arg) = 3
    /\ request.arg[1].agent_type = "scraper"
    /\ request.outcomes[2] = "raises"
    /\ request.outcomes[3] = "returns"
    /\ Len(response.val) = 3
    /\ response.val[1].data = None
    /\ response.val[2].data = None
    /\ response.val[3].data # None

====
